---- MODULE Spec2Model ----
(***************************************************************************)
(* A model of the tron-go document engine: the append-only Builder, the    *)
(* persistent HAMT map (src/map_ops.go, MapBuilder) and the persistent      *)
(* vector-trie array (src/array_ops.go), and the document-level updates    *)
(* that emit a trailer.                                                     *)
(*                                                                         *)
(* The builder buffer is a sequence of cells.  Cell 1 is the header magic; *)
(* every later cell is one appended node or value record.  An offset is    *)
(* the number of cells in front of the cell it addresses, so offsets grow  *)
(* with every append exactly as byte offsets do.                            *)
(***************************************************************************)
EXTENDS Integers, Sequences, FiniteSets, TLC

(***************************************************************************)
(* Bounds of the model.                                                     *)
(***************************************************************************)
\* number of builder / document operations in one behaviour
MaxOps == 2

\* number of values appended one at a time to the empty array
MaxAppend == 18

\* the k-th appended value is an i64 between k and k + MaxSkip
MaxSkip == 2

(***************************************************************************)
(* Program constants.                                                       *)
(***************************************************************************)
hamtSlots == 16
hamtMask == 15
maxDepth32 == 7

NodeBranch == "branch"
NodeLeaf == "leaf"
KeyArr == "arr"
KeyMap == "map"
KeyNone == "value"

TypeNil == "nil"
TypeBit == "bit"
TypeI64 == "i64"
TypeF64 == "f64"
TypeTxt == "txt"
TypeBin == "bin"
TypeArr == "arr"
TypeMap == "map"
TypeBad == "unknown"

NoErr == "ok"

(***************************************************************************)
(* Values (type Value struct of value.go): every field is present, the     *)
(* unused ones hold Go's zero value.                                        *)
(***************************************************************************)
\* F64 holds math.Float64bits of the number as four 16-bit words, least
\* significant first
Value(t, b, i, bytes, off) ==
    [Type |-> t, Bool |-> b, I64 |-> i, F64 |-> <<0, 0, 0, 0>>, Bytes |-> bytes, Offset |-> off]

ZeroValue == Value(TypeNil, FALSE, 0, <<>>, 0)
I64Value(n) == Value(TypeI64, FALSE, n, <<>>, 0)
BitValue(b) == Value(TypeBit, b, 0, <<>>, 0)
TxtValue(s) == Value(TypeTxt, FALSE, 0, s, 0)

\* valueEqual of map_ops.go
\* a comparison that leaves the i64 case out
valueEqualNoI64(a, b) ==
    /\ a.Type = b.Type
    /\ CASE a.Type = TypeNil -> TRUE
         [] a.Type = TypeBit -> a.Bool = b.Bool
         [] a.Type = TypeTxt -> a.Bytes = b.Bytes
         [] a.Type \in {TypeArr, TypeMap} -> a.Offset = b.Offset
         [] OTHER -> FALSE

valueEqual(a, b) ==
    IF a.Type # b.Type THEN FALSE
    ELSE CASE a.Type = TypeNil -> TRUE
           [] a.Type = TypeBit -> a.Bool = b.Bool
           [] a.Type = TypeI64 -> a.I64 = b.I64
           [] a.Type = TypeF64 -> a.F64 = b.F64
           [] a.Type \in {TypeTxt, TypeBin} -> a.Bytes = b.Bytes
           [] a.Type \in {TypeArr, TypeMap} -> a.Offset = b.Offset
           [] OTHER -> FALSE

(***************************************************************************)
(* Keys are byte strings.  The keys of the model and their xxh32 hashes    *)
(* (seed 0), as computed by XXH32 of xxh32.go:                              *)
(*   "a"    0x550D7456    "v"    0x4B146E46   (same slot at depth 0)        *)
(*   "dluw" 0x5ACD9445    "tqt"  0x5ACD9445   (same hash: collide at 7)     *)
(***************************************************************************)
KeyA == <<97>>
KeyV == <<118>>
KeyDluw == <<100, 108, 117, 119>>
KeyTqt == <<116, 113, 116>>

Keys == {KeyA, KeyV, KeyDluw, KeyTqt}

XXH32(key) ==
    CASE key = KeyA -> 1426945110
      [] key = KeyV -> 1259630150
      [] key = KeyDluw -> 1523422277
      [] key = KeyTqt -> 1523422277

\* bytesCompare of node.go: lexicographic over raw bytes, -1 / 0 / 1
RECURSIVE bytesCompareFrom(_, _, _)
bytesCompareFrom(a, b, i) ==
    LET min == IF Len(b) < Len(a) THEN Len(b) ELSE Len(a) IN
    IF i > min
    THEN IF Len(a) < Len(b) THEN -1 ELSE IF Len(a) > Len(b) THEN 1 ELSE 0
    ELSE IF a[i] = b[i] THEN bytesCompareFrom(a, b, i + 1)
    ELSE IF a[i] < b[i] THEN -1 ELSE 1

bytesCompare(a, b) == bytesCompareFrom(a, b, 1)

(***************************************************************************)
(* Bit operations on 16-bit bitmaps.                                        *)
(***************************************************************************)
Bit(bitmap, slot) == (bitmap \div (2 ^ slot)) % 2

HasBit(bitmap, slot) == Bit(bitmap, slot) = 1

\* bitmap | (1 << slot)
SetBit(bitmap, slot) == IF HasBit(bitmap, slot) THEN bitmap ELSE bitmap + 2 ^ slot

\* bitmap &^ (1 << slot)
ClearBit(bitmap, slot) == IF HasBit(bitmap, slot) THEN bitmap - 2 ^ slot ELSE bitmap

\* popcount16 of node.go, as the number of set bits
RECURSIVE popcountFrom(_, _)
popcountFrom(x, i) == IF i >= 16 THEN 0 ELSE Bit(x, i) + popcountFrom(x, i + 1)

popcount16(x) == popcountFrom(x, 0)

\* popcount16(bitmap & ((1 << slot) - 1)): the dense index of a slot
DenseIdx(bitmap, slot) == popcount16(bitmap % (2 ^ slot))

\* (hash >> (depth * 4)) & hamtMask
HashSlot(hash, depth) ==
    IF depth >= 8 THEN 0 ELSE (hash \div (hamtSlots ^ depth)) % (hamtMask + 1)

\* (index >> shift) & 0xF
IndexSlot(index, shift) == (index \div (2 ^ shift)) % 16

(***************************************************************************)
(* Sequence helpers (Go slice idioms).                                      *)
(***************************************************************************)
\* an assignment that is lost
SetAtLost(s, i, x) == s

\* s with element i (0-based) replaced by x
SetAt(s, i, x) == [s EXCEPT ![i + 1] = x]

\* an insertion that ignores the position and appends
InsertAtEnd(s, i, x) == Append(s, x)

\* s with x inserted in front of element i (0-based)
InsertAt(s, i, x) == SubSeq(s, 1, i) \o <<x>> \o SubSeq(s, i + 1, Len(s))

\* s without element i (0-based)
RemoveAt(s, i) == SubSeq(s, 1, i) \o SubSeq(s, i + 2, Len(s))

(***************************************************************************)
(* The buffer and its cells.                                                *)
(***************************************************************************)
HeaderMagic == [KeyType |-> KeyNone, Kind |-> "magic"]

MapLeafCell(entries) == [KeyType |-> KeyMap, Kind |-> NodeLeaf, Entries |-> entries]

MapBranchCell(bitmap, children) ==
    [KeyType |-> KeyMap, Kind |-> NodeBranch, Bitmap |-> bitmap, Children |-> children]

ArrayLeafCell(isRoot, bitmap, length, addrs) ==
    [KeyType |-> KeyArr, Kind |-> NodeLeaf, IsRoot |-> isRoot, Shift |-> 0,
     Bitmap |-> bitmap, Length |-> length, ValueAddrs |-> addrs]

ArrayBranchCell(isRoot, shift, bitmap, length, children) ==
    [KeyType |-> KeyArr, Kind |-> NodeBranch, IsRoot |-> isRoot, Shift |-> shift,
     Bitmap |-> bitmap, Length |-> length, Children |-> children]

ValueCell(v) == [KeyType |-> KeyNone, Kind |-> "value", Value |-> v]

\* NewBuilder: a buffer holding only the header magic
NewBuilder == <<HeaderMagic>>

\* NodeSliceAt of document.go: the node at offset off, or an error
NodeSliceAt(b, off) ==
    IF off < 0 \/ off >= Len(b)
    THEN [err |-> "node offset out of range", node |-> HeaderMagic]
    ELSE [err |-> NoErr, node |-> b[off + 1]]

\* an append that writes over the last node of the buffer
AppendNodeAtTail(b, node) == [buf |-> [b EXCEPT ![Len(b)] = node], off |-> Len(b) - 1]

\* appendNodeWithBodyLen / Builder.AppendNode: the node goes to the end of the
\* buffer and its offset is the length of the buffer before the append
AppendNode(b, node) == [buf |-> Append(b, node), off |-> Len(b)]

\* Builder.Reset: truncate to the header magic
ResetBuf(b) == <<HeaderMagic>>

(***************************************************************************)
(* Node encoders of encode.go.  A result carries the buffer as the call    *)
(* left it, also when the call failed.                                      *)
(***************************************************************************)
AppRes(off, err, buf) == [off |-> off, err |-> err, buf |-> buf]

OpRes(off, changed, err, buf) == [off |-> off, changed |-> changed, err |-> err, buf |-> buf]

GetRes(v, ok, err) == [val |-> v, ok |-> ok, err |-> err]

Min(S) == CHOOSE x \in S : \A y \in S : x <= y

\* encodedValueLen: fails for a value of unknown type
encodedValueLenErr(v) ==
    IF v.Type \in {TypeNil, TypeBit, TypeI64, TypeF64, TypeTxt, TypeBin, TypeArr, TypeMap}
    THEN NoErr ELSE "unknown value type"

\* appendMapBranchNode
appendMapBranchNode(buf, bitmap, children) ==
    IF Len(children) # popcount16(bitmap)
    THEN AppRes(0, "children length does not match bitmap", buf)
    ELSE LET a == AppendNode(buf, MapBranchCell(bitmap, children)) IN
         AppRes(a.off, NoErr, a.buf)

\* a leaf writer that reuses the buffer's last node when that is a map leaf
appendMapLeafNodeInPlace(buf, entries) ==
    IF buf[Len(buf)].KeyType = KeyMap /\ buf[Len(buf)].Kind = NodeLeaf
    THEN AppRes(Len(buf) - 1, NoErr, [buf EXCEPT ![Len(buf)] = MapLeafCell(entries)])
    ELSE AppRes(Len(buf), NoErr, Append(buf, MapLeafCell(entries)))

\* appendMapLeafNodeSorted: writes the entries in the order given; the body
\* length is computed first, so a value that cannot be encoded fails the call
\* before anything is appended
appendMapLeafNodeSorted(buf, entries) ==
    IF \E i \in 1..Len(entries) : encodedValueLenErr(entries[i].Value) # NoErr
    THEN AppRes(0, "unknown value type", buf)
    ELSE LET a == AppendNode(buf, MapLeafCell(entries)) IN
         AppRes(a.off, NoErr, a.buf)

\* ParseMapLeafNode: the entries of a map leaf; rejects keys that are not
\* strictly ascending
ParseMapLeafNode(node) ==
    IF \E i \in 2..Len(node.Entries) :
          bytesCompare(node.Entries[i - 1].Key, node.Entries[i].Key) >= 0
    THEN [err |-> "map leaf keys must be sorted and unique", Entries |-> <<>>]
    ELSE [err |-> NoErr, Entries |-> node.Entries]

(***************************************************************************)
(* MapBuilder: buildMapNodeFromEntries / buildMapNode / encodeMapNode.      *)
(***************************************************************************)
MapLeafEntry(k, v) == [Key |-> k, Value |-> v]

mapEntry(k, v, h) == [Key |-> k, Value |-> v, Hash |-> h]

mapNode(kind, bitmap, children, entries) ==
    [kind |-> kind, bitmap |-> bitmap, children |-> children, entries |-> entries]

\* a sort that leaves the entries in the order given
sortByKeySkipped(entries) == entries

\* sort.Slice(entries, bytes.Compare(Key_i, Key_j) < 0), as an insertion sort
RECURSIVE insertByKey(_, _)
insertByKey(sorted, e) ==
    IF sorted = <<>> THEN <<e>>
    ELSE IF bytesCompare(e.Key, Head(sorted).Key) < 0 THEN <<e>> \o sorted
    ELSE <<Head(sorted)>> \o insertByKey(Tail(sorted), e)

RECURSIVE sortByKey(_)
sortByKey(entries) ==
    IF entries = <<>> THEN <<>>
    ELSE insertByKey(sortByKey(SubSeq(entries, 1, Len(entries) - 1)), entries[Len(entries)])

\* counts[slot]: the number of entries whose hash selects slot at depth
slotCounts(entries, depth) ==
    [slot \in 0..(hamtSlots - 1) |->
        Cardinality({i \in 1..Len(entries) : HashSlot(entries[i].Hash, depth) = slot})]

RECURSIVE sumBelow(_, _)
sumBelow(counts, slot) == IF slot = 0 THEN 0 ELSE counts[slot - 1] + sumBelow(counts, slot - 1)

\* starts[slot]: the first position of the slot's group
slotStarts(counts) ==
    [slot \in 0..(hamtSlots - 1) |-> IF counts[slot] = 0 THEN 0 ELSE sumBelow(counts, slot)]

\* the in-place grouping loop of buildMapNode (i is 0-based)
RECURSIVE partitionBySlot(_, _, _, _, _, _)
partitionBySlot(entries, i, offsets, starts, counts, depth) ==
    IF i >= Len(entries) THEN entries
    ELSE LET slot == HashSlot(entries[i + 1].Hash, depth)
             start == starts[slot]
             end == start + counts[slot]
         IN IF i >= start /\ i < end
            THEN partitionBySlot(entries, i + 1, offsets, starts, counts, depth)
            ELSE LET target == offsets[slot]
                     swapped == [entries EXCEPT ![i + 1] = entries[target + 1],
                                                ![target + 1] = entries[i + 1]]
                 IN partitionBySlot(swapped, i, [offsets EXCEPT ![slot] = @ + 1],
                                    starts, counts, depth)

RECURSIVE buildMapNode(_, _)
buildMapNode(entries, depth) ==
    IF Len(entries) = 0 THEN mapNode(NodeLeaf, 0, <<>>, <<>>)
    ELSE IF Len(entries) = 1 THEN mapNode(NodeLeaf, 0, <<>>, entries)
    ELSE IF depth >= maxDepth32 THEN mapNode(NodeLeaf, 0, <<>>, sortByKey(entries))
    ELSE LET counts == slotCounts(entries, depth)
             used == {slot \in 0..(hamtSlots - 1) : counts[slot] # 0}
         IN IF Cardinality(used) = 1
            THEN LET slot == HashSlot(entries[1].Hash, depth) IN
                 mapNode(NodeBranch, 2 ^ slot, <<buildMapNode(entries, depth + 1)>>, <<>>)
            ELSE LET starts == slotStarts(counts)
                     grouped == partitionBySlot(entries, 0, starts, starts, counts, depth)
                     RECURSIVE childrenFrom(_)
                     childrenFrom(slot) ==
                         IF slot >= hamtSlots THEN <<>>
                         ELSE IF counts[slot] = 0 THEN childrenFrom(slot + 1)
                         ELSE <<buildMapNode(SubSeq(grouped, starts[slot] + 1,
                                                    starts[slot] + counts[slot]),
                                             depth + 1)>> \o childrenFrom(slot + 1)
                     RECURSIVE bitmapOf(_)
                     bitmapOf(slot) ==
                         IF slot >= hamtSlots THEN 0
                         ELSE (IF counts[slot] = 0 THEN 0 ELSE 2 ^ slot) + bitmapOf(slot + 1)
                 IN mapNode(NodeBranch, bitmapOf(0), childrenFrom(0), <<>>)

buildMapNodeFromEntries(entries, depth) ==
    IF Len(entries) = 0 THEN mapNode(NodeLeaf, 0, <<>>, <<>>)
    ELSE buildMapNode([i \in 1..Len(entries) |->
                          mapEntry(entries[i].Key, entries[i].Value, XXH32(entries[i].Key))],
                      depth)

\* encodeMapNode: children first, in slot order, then the node itself
RECURSIVE encodeMapNode(_, _)
encodeMapNode(buf, node) ==
    IF node.kind = NodeLeaf
    THEN appendMapLeafNodeSorted(buf,
             [i \in 1..Len(node.entries) |->
                 MapLeafEntry(node.entries[i].Key, node.entries[i].Value)])
    ELSE LET RECURSIVE encodeChildren(_, _, _)
             encodeChildren(b, i, offs) ==
                 IF i > Len(node.children) THEN [err |-> NoErr, buf |-> b, offs |-> offs]
                 ELSE LET r == encodeMapNode(b, node.children[i]) IN
                      IF r.err # NoErr THEN [err |-> r.err, buf |-> r.buf, offs |-> offs]
                      ELSE encodeChildren(r.buf, i + 1, Append(offs, r.off))
             ch == encodeChildren(buf, 1, <<>>)
         IN IF ch.err # NoErr THEN AppRes(0, ch.err, ch.buf)
            ELSE appendMapBranchNode(ch.buf, node.bitmap, ch.offs)

(***************************************************************************)
(* The HAMT engine of map_ops.go.                                           *)
(***************************************************************************)
\* a scan that stops at the first entry whatever its key
findKeyFirst(entries, key) == IF Len(entries) = 0 THEN -1 ELSE 0

\* index (0-based) of the first entry whose key equals key, or -1
findKey(entries, key) ==
    LET hits == {i \in 1..Len(entries) : entries[i].Key = key} IN
    IF hits = {} THEN -1 ELSE Min(hits) - 1

RECURSIVE mapGet(_, _, _, _)
mapGet(doc, off, key, depth) ==
    LET ns == NodeSliceAt(doc, off)
        node == ns.node
    IN IF ns.err # NoErr THEN GetRes(ZeroValue, FALSE, ns.err)
       ELSE IF node.KeyType # KeyMap THEN GetRes(ZeroValue, FALSE, "node is not a map")
       ELSE IF node.Kind = NodeLeaf
       THEN LET leaf == ParseMapLeafNode(node)
                i == findKey(leaf.Entries, key)
            IN IF leaf.err # NoErr THEN GetRes(ZeroValue, FALSE, leaf.err)
               ELSE IF i >= 0 THEN GetRes(leaf.Entries[i + 1].Value, TRUE, NoErr)
               ELSE GetRes(ZeroValue, FALSE, NoErr)
       ELSE LET slot == HashSlot(XXH32(key), depth) IN
            IF ~HasBit(node.Bitmap, slot) THEN GetRes(ZeroValue, FALSE, NoErr)
            ELSE mapGet(doc, node.Children[DenseIdx(node.Bitmap, slot) + 1], key, depth + 1)

MapGet(doc, rootOff, key) == mapGet(doc, rootOff, key, 0)

\* EmptyMapRoot: appendMapLeafNodeSorted(builder, nil)
EmptyMapRoot(buf) == appendMapLeafNodeSorted(buf, <<>>)

\* an emptiness test that never reports an empty node
mapNodeEmptyNever(doc, off) == [err |-> NoErr, empty |-> FALSE]

\* a child that is taken to be empty whatever it holds
mapNodeEmptyAlways(doc, off) == [err |-> NoErr, empty |-> TRUE]

\* mapNodeEmpty: an empty leaf
mapNodeEmpty(doc, off) ==
    LET ns == NodeSliceAt(doc, off) IN
    IF ns.err # NoErr THEN [err |-> ns.err, empty |-> FALSE]
    ELSE IF ns.node.KeyType # KeyMap THEN [err |-> "node is not a map", empty |-> FALSE]
    ELSE IF ns.node.Kind # NodeLeaf THEN [err |-> NoErr, empty |-> FALSE]
    ELSE LET leaf == ParseMapLeafNode(ns.node) IN
         IF leaf.err # NoErr THEN [err |-> leaf.err, empty |-> FALSE]
         ELSE [err |-> NoErr, empty |-> Len(leaf.Entries) = 0]

\* entries that are written as one leaf whatever the depth
encodeEntriesAsLeaf(buf, entries, depth) ==
    LET app == appendMapLeafNodeSorted(buf, sortByKey(entries)) IN
    OpRes(app.off, TRUE, app.err, app.buf)

\* build a node from entries at depth and append it: the common tail of the
\* leaf cases of mapSet and mapDel
encodeEntries(buf, entries, depth) ==
    LET enc == encodeMapNode(buf, buildMapNodeFromEntries(entries, depth)) IN
    IF enc.err # NoErr THEN OpRes(0, FALSE, enc.err, enc.buf)
    ELSE OpRes(enc.off, TRUE, NoErr, enc.buf)

\* a branch that is written twice, the second copy being the one returned
emitMapBranchTwice(buf, bitmap, children) ==
    OpRes(Len(buf) + 1, TRUE, NoErr,
          Append(Append(buf, MapBranchCell(bitmap, children)), MapBranchCell(bitmap, children)))

\* append a branch and report a change
emitMapBranch(buf, bitmap, children) ==
    LET app == appendMapBranchNode(buf, bitmap, children) IN
    IF app.err # NoErr THEN OpRes(0, FALSE, app.err, app.buf)
    ELSE OpRes(app.off, TRUE, NoErr, app.buf)

\* mapSet: doc is the buffer as it was when the call started, buf the builder
RECURSIVE mapSet(_, _, _, _, _, _)
mapSet(doc, off, key, val, depth, buf) ==
    LET ns == NodeSliceAt(doc, off)
        node == ns.node
    IN IF depth > maxDepth32 THEN OpRes(0, FALSE, "map depth exceeds max", buf)
       ELSE IF ns.err # NoErr THEN OpRes(0, FALSE, ns.err, buf)
       ELSE IF node.KeyType # KeyMap THEN OpRes(0, FALSE, "node is not a map", buf)
       ELSE IF node.Kind = NodeLeaf
       THEN LET leaf == ParseMapLeafNode(node)
                entries == leaf.Entries
                i == findKey(entries, key)
            IN IF leaf.err # NoErr THEN OpRes(0, FALSE, leaf.err, buf)
               ELSE IF i >= 0
               THEN IF valueEqual(entries[i + 1].Value, val)
                    THEN OpRes(off, FALSE, NoErr, buf)
                    ELSE encodeEntries(buf, SetAt(entries, i, MapLeafEntry(key, val)), depth)
               ELSE encodeEntries(buf, Append(entries, MapLeafEntry(key, val)), depth)
       ELSE LET slot == HashSlot(XXH32(key), depth)
                idx == DenseIdx(node.Bitmap, slot)
                hasChild == HasBit(node.Bitmap, slot)
            IN IF hasChild
               THEN LET sub == mapSet(doc, node.Children[idx + 1], key, val, depth + 1, buf) IN
                    IF sub.err # NoErr THEN OpRes(0, FALSE, sub.err, sub.buf)
                    ELSE IF ~sub.changed THEN OpRes(off, FALSE, NoErr, sub.buf)
                    ELSE emitMapBranch(sub.buf, node.Bitmap, SetAt(node.Children, idx, sub.off))
               ELSE LET new == encodeEntries(buf, <<MapLeafEntry(key, val)>>, depth + 1) IN
                    IF new.err # NoErr THEN OpRes(0, FALSE, new.err, new.buf)
                    ELSE emitMapBranch(new.buf, SetBit(node.Bitmap, slot),
                                       InsertAt(node.Children, idx, new.off))

\* MapSetNode: mapSet(builder.buf, rootOff, key, val, 0, builder)
MapSetNode(buf, rootOff, key, val) == mapSet(buf, rootOff, key, val, 0, buf)

\* a removal that drops the first entry whatever its key
withoutFirst(entries, key) == Tail(entries)

\* the entries of a leaf without those of key
RECURSIVE withoutKey(_, _)
withoutKey(entries, key) ==
    IF entries = <<>> THEN <<>>
    ELSE IF Head(entries).Key = key THEN withoutKey(Tail(entries), key)
    ELSE <<Head(entries)>> \o withoutKey(Tail(entries), key)

\* an empty leaf that is taken from the front of the buffer instead of
\* being appended
emitEmptyLeafShared(buf) == OpRes(1, TRUE, NoErr, buf)

\* the empty leaf mapDel appends when the last entry is gone
emitEmptyLeaf(buf) ==
    LET app == appendMapLeafNodeSorted(buf, <<>>) IN
    IF app.err # NoErr THEN OpRes(0, FALSE, app.err, app.buf)
    ELSE OpRes(app.off, TRUE, NoErr, app.buf)

RECURSIVE mapDel(_, _, _, _, _)
mapDel(doc, off, key, depth, buf) ==
    LET ns == NodeSliceAt(doc, off)
        node == ns.node
    IN IF depth > maxDepth32 THEN OpRes(0, FALSE, "map depth exceeds max", buf)
       ELSE IF ns.err # NoErr THEN OpRes(0, FALSE, ns.err, buf)
       ELSE IF node.KeyType # KeyMap THEN OpRes(0, FALSE, "node is not a map", buf)
       ELSE IF node.Kind = NodeLeaf
       THEN LET leaf == ParseMapLeafNode(node)
                found == findKey(leaf.Entries, key) >= 0
                entries == withoutKey(leaf.Entries, key)
            IN IF leaf.err # NoErr THEN OpRes(0, FALSE, leaf.err, buf)
               ELSE IF ~found THEN OpRes(off, FALSE, NoErr, buf)
               ELSE IF Len(entries) = 0 THEN emitEmptyLeaf(buf)
               ELSE encodeEntries(buf, entries, depth)
       ELSE LET slot == HashSlot(XXH32(key), depth)
                idx == DenseIdx(node.Bitmap, slot)
                hasChild == HasBit(node.Bitmap, slot)
            IN IF ~hasChild THEN OpRes(off, FALSE, NoErr, buf)
               ELSE LET sub == mapDel(doc, node.Children[idx + 1], key, depth + 1, buf)
                        emptyChild == mapNodeEmpty(sub.buf, sub.off)
                        children == RemoveAt(node.Children, idx)
                    IN IF sub.err # NoErr THEN OpRes(0, FALSE, sub.err, sub.buf)
                       ELSE IF ~sub.changed THEN OpRes(off, FALSE, NoErr, sub.buf)
                       ELSE IF emptyChild.err # NoErr THEN OpRes(0, FALSE, emptyChild.err, sub.buf)
                       ELSE IF emptyChild.empty
                       THEN IF Len(children) = 0 THEN emitEmptyLeaf(sub.buf)
                            ELSE emitMapBranch(sub.buf, ClearBit(node.Bitmap, slot), children)
                       ELSE emitMapBranch(sub.buf, node.Bitmap,
                                          SetAt(node.Children, idx, sub.off))

\* a delete that emits a copy of the root when nothing was removed
MapDelNodeReemit(buf, rootOff, key) ==
    LET r == mapDel(buf, rootOff, key, 0, buf) IN
    IF r.err # NoErr \/ r.changed THEN r
    ELSE OpRes(Len(r.buf), TRUE, NoErr, Append(r.buf, r.buf[rootOff + 1]))

\* MapDelNode: mapDel(builder.buf, rootOff, key, 0, builder)
MapDelNode(buf, rootOff, key) == mapDel(buf, rootOff, key, 0, buf)

\* MapBuilder.Build: a map built from entries in the order given
MapBuilderBuild(buf, entries) == encodeMapNode(buf, buildMapNodeFromEntries(entries, 0))

(***************************************************************************)
(* Value records addressed from array leaves.                               *)
(***************************************************************************)
\* DecodeValueAt: a container node decodes to a value of its kind pointing at
\* addr, a value record decodes in place
DecodeValueAt(doc, addr) ==
    IF addr < 0 \/ addr >= Len(doc) THEN [err |-> "value offset out of range", val |-> ZeroValue]
    ELSE LET cell == doc[addr + 1] IN
         IF cell.KeyType = KeyMap THEN [err |-> NoErr, val |-> Value(TypeMap, FALSE, 0, <<>>, addr)]
         ELSE IF cell.KeyType = KeyArr THEN [err |-> NoErr, val |-> Value(TypeArr, FALSE, 0, <<>>, addr)]
         ELSE IF cell.Kind = "value" THEN [err |-> NoErr, val |-> cell.Value]
         ELSE [err |-> "bad tag", val |-> ZeroValue]

\* valueAddress: the address under which a leaf stores value; a scalar is
\* appended as a value record, a container is addressed by its node offset
valueAddress(buf, value) ==
    IF encodedValueLenErr(value) # NoErr THEN AppRes(0, "unknown value type", buf)
    ELSE IF value.Type \in {TypeArr, TypeMap} THEN AppRes(value.Offset, NoErr, buf)
    ELSE LET a == AppendNode(buf, ValueCell(value)) IN AppRes(a.off, NoErr, a.buf)

(***************************************************************************)
(* Array node encoders (encode.go).                                         *)
(***************************************************************************)
appendArrayBranchNode(buf, isRoot, shift, bitmap, length, children) ==
    IF shift % 4 # 0 THEN AppRes(0, "array branch shift must be multiple of 4", buf)
    ELSE IF Len(children) # popcount16(bitmap)
    THEN AppRes(0, "children length does not match bitmap", buf)
    ELSE LET a == AppendNode(buf, ArrayBranchCell(isRoot, shift, bitmap, length, children)) IN
         AppRes(a.off, NoErr, a.buf)

appendArrayLeafNode(buf, isRoot, shift, bitmap, length, addrs) ==
    IF shift # 0 THEN AppRes(0, "array leaf shift must be 0", buf)
    ELSE IF Len(addrs) # popcount16(bitmap)
    THEN AppRes(0, "values length does not match bitmap", buf)
    ELSE LET a == AppendNode(buf, ArrayLeafCell(isRoot, bitmap, length, addrs)) IN
         AppRes(a.off, NoErr, a.buf)

(***************************************************************************)
(* The vector-trie engine of array_ops.go.                                  *)
(***************************************************************************)
\* arrayRootLength: the length stored on the root node
arrayRootLength(doc, rootOff) ==
    LET ns == NodeSliceAt(doc, rootOff) IN
    IF ns.err # NoErr THEN [err |-> ns.err, length |-> 0]
    ELSE IF ns.node.KeyType # KeyArr THEN [err |-> "root is not array", length |-> 0]
    ELSE IF ~ns.node.IsRoot THEN [err |-> "array root missing root flag", length |-> 0]
    ELSE IF ns.node.Kind = NodeBranch /\ ns.node.Shift % 4 # 0
    THEN [err |-> "array branch shift must be multiple of 4", length |-> 0]
    ELSE [err |-> NoErr, length |-> ns.node.Length]

RECURSIVE arrGet(_, _, _, _)
arrGet(doc, off, index, isRoot) ==
    LET ns == NodeSliceAt(doc, off)
        node == ns.node
    IN IF ns.err # NoErr THEN GetRes(ZeroValue, FALSE, ns.err)
       ELSE IF node.KeyType # KeyArr THEN GetRes(ZeroValue, FALSE, "node is not an array")
       ELSE IF ~isRoot /\ node.IsRoot
       THEN GetRes(ZeroValue, FALSE, "array non-root node marked as root")
       ELSE IF node.Kind = NodeLeaf
       THEN LET slot == IndexSlot(index, 0) IN
            IF node.Shift # 0 THEN GetRes(ZeroValue, FALSE, "array leaf shift must be 0")
            ELSE IF ~HasBit(node.Bitmap, slot) THEN GetRes(ZeroValue, FALSE, NoErr)
            ELSE LET dec == DecodeValueAt(doc, node.ValueAddrs[DenseIdx(node.Bitmap, slot) + 1]) IN
                 IF dec.err # NoErr THEN GetRes(ZeroValue, FALSE, dec.err)
                 ELSE GetRes(dec.val, TRUE, NoErr)
       ELSE LET slot == IndexSlot(index, node.Shift) IN
            IF node.Shift % 4 # 0
            THEN GetRes(ZeroValue, FALSE, "array branch shift must be multiple of 4")
            ELSE IF ~HasBit(node.Bitmap, slot) THEN GetRes(ZeroValue, FALSE, NoErr)
            ELSE arrGet(doc, node.Children[DenseIdx(node.Bitmap, slot) + 1], index, FALSE)

\* ArrGet: indices at or past the root length are out of range
ArrGet(doc, rootOff, index) ==
    LET len == arrayRootLength(doc, rootOff) IN
    IF len.err # NoErr THEN GetRes(ZeroValue, FALSE, len.err)
    ELSE IF index >= len.length THEN GetRes(ZeroValue, FALSE, "array index out of range")
    ELSE arrGet(doc, rootOff, index, TRUE)

\* a clone that clears the root flag of the node where it lies
cloneArrayNodeInPlace(doc, off, buf) ==
    AppRes(off, NoErr, [buf EXCEPT ![off + 1] = [@ EXCEPT !.IsRoot = FALSE, !.Length = 0]])

\* cloneArrayNodeAsChild: a root node is re-emitted without the root flag and
\* with length 0; a non-root node is used as it is
cloneArrayNodeAsChild(doc, off, buf) ==
    LET ns == NodeSliceAt(doc, off)
        node == ns.node
    IN IF ns.err # NoErr THEN AppRes(0, ns.err, buf)
       ELSE IF node.KeyType # KeyArr THEN AppRes(0, "node is not an array", buf)
       ELSE IF ~node.IsRoot THEN AppRes(off, NoErr, buf)
       ELSE IF node.Kind = NodeLeaf
       THEN appendArrayLeafNode(buf, FALSE, node.Shift, node.Bitmap, 0, node.ValueAddrs)
       ELSE appendArrayBranchNode(buf, FALSE, node.Shift, node.Bitmap, 0, node.Children)

\* a root that is never grown
growArrayRootNever(buf, off, shift, index, length) == AppRes(off, NoErr, buf)

\* the growth loop of ensureArrayRoot
RECURSIVE growArrayRoot(_, _, _, _, _)
growArrayRoot(buf, off, shift, index, length) ==
    IF index \div (2 ^ shift) <= 15 THEN AppRes(off, NoErr, buf)
    ELSE LET wrap(child) ==
                 IF child.err # NoErr THEN AppRes(0, child.err, child.buf)
                 ELSE LET grown(app) ==
                              IF app.err # NoErr THEN AppRes(0, app.err, app.buf)
                              ELSE growArrayRoot(app.buf, app.off, shift + 4, index, length)
                      IN grown(appendArrayBranchNode(child.buf, TRUE, shift + 4, 1, length,
                                                     <<child.off>>))
         IN wrap(cloneArrayNodeAsChild(buf, off, buf))

\* a root that is copied to the end of the buffer whether or not it grows
ensureArrayRootCopy(buf, rootOff, index, length) ==
    AppRes(Len(buf), NoErr, Append(buf, NodeSliceAt(buf, rootOff).node))

\* ensureArrayRoot: wrap the root in new root branches until index fits
ensureArrayRoot(buf, rootOff, index, length) ==
    LET ns == NodeSliceAt(buf, rootOff)
        node == ns.node
    IN IF ns.err # NoErr THEN AppRes(0, ns.err, buf)
       ELSE IF node.KeyType # KeyArr \/ ~node.IsRoot
       THEN AppRes(0, "array root missing root flag", buf)
       ELSE IF node.Kind = NodeBranch /\ node.Shift % 4 # 0
       THEN AppRes(0, "array branch shift must be multiple of 4", buf)
       ELSE growArrayRoot(buf, rootOff, IF node.Kind = NodeLeaf THEN 0 ELSE node.Shift,
                          index, length)

\* a path that is a single leaf whatever the shift
buildArrayPathLeaf(index, shift, value, buf) ==
    LET addr == valueAddress(buf, value) IN
    IF addr.err # NoErr THEN AppRes(0, addr.err, addr.buf)
    ELSE appendArrayLeafNode(addr.buf, FALSE, 0, 2 ^ IndexSlot(index, 0), 0, <<addr.off>>)

\* buildArrayPath: a fresh single-element path from the leaf upward
RECURSIVE buildArrayPath(_, _, _, _)
buildArrayPath(index, shift, value, buf) ==
    IF shift % 4 # 0 THEN AppRes(0, "array path shift must be multiple of 4", buf)
    ELSE IF shift = 0
    THEN LET addr == valueAddress(buf, value) IN
         IF addr.err # NoErr THEN AppRes(0, addr.err, addr.buf)
         ELSE appendArrayLeafNode(addr.buf, FALSE, 0, 2 ^ IndexSlot(index, 0), 0, <<addr.off>>)
    ELSE LET child == buildArrayPath(index, shift - 4, value, buf) IN
         IF child.err # NoErr THEN AppRes(0, child.err, child.buf)
         ELSE appendArrayBranchNode(child.buf, FALSE, shift, 2 ^ IndexSlot(index, shift), 0,
                                    <<child.off>>)

emitArrayNode(app) ==
    IF app.err # NoErr THEN OpRes(0, FALSE, app.err, app.buf)
    ELSE OpRes(app.off, TRUE, NoErr, app.buf)

RECURSIVE arrSetNode(_, _, _, _, _, _, _)
arrSetNode(doc, off, index, value, buf, isRoot, rootLength) ==
    LET ns == NodeSliceAt(doc, off)
        node == ns.node
    IN IF ns.err # NoErr THEN OpRes(0, FALSE, ns.err, buf)
       ELSE IF node.KeyType # KeyArr THEN OpRes(0, FALSE, "node is not an array", buf)
       ELSE IF ~isRoot /\ node.IsRoot
       THEN OpRes(0, FALSE, "array non-root node marked as root", buf)
       ELSE IF node.Kind = NodeLeaf
       THEN LET length == IF node.IsRoot THEN node.Length ELSE 0
                slot == IndexSlot(index, 0)
                idx == DenseIdx(node.Bitmap, slot)
                has == HasBit(node.Bitmap, slot)
                cur == IF has THEN DecodeValueAt(doc, node.ValueAddrs[idx + 1])
                       ELSE [err |-> NoErr, val |-> ZeroValue]
                new == valueAddress(buf, value)
                newValues == IF has THEN SetAt(node.ValueAddrs, idx, new.off)
                             ELSE InsertAt(node.ValueAddrs, idx, new.off)
            IN IF node.Shift # 0 THEN OpRes(0, FALSE, "array leaf shift must be 0", buf)
               ELSE IF cur.err # NoErr THEN OpRes(0, FALSE, cur.err, buf)
               ELSE IF has /\ valueEqual(cur.val, value) /\ (~isRoot \/ length = rootLength)
               THEN OpRes(off, FALSE, NoErr, buf)
               ELSE IF new.err # NoErr THEN OpRes(0, FALSE, new.err, new.buf)
               ELSE emitArrayNode(appendArrayLeafNode(new.buf, isRoot, 0,
                                      SetBit(node.Bitmap, slot),
                                      IF isRoot THEN rootLength ELSE 0, newValues))
       ELSE LET length == IF node.IsRoot THEN node.Length ELSE 0
                shift == node.Shift
                slot == IndexSlot(index, shift)
                idx == DenseIdx(node.Bitmap, slot)
                has == HasBit(node.Bitmap, slot)
                sub == IF has
                       THEN arrSetNode(doc, node.Children[idx + 1], index, value, buf, FALSE, 0)
                       ELSE emitArrayNode(buildArrayPath(index, shift - 4, value, buf))
                newChildren == IF has THEN SetAt(node.Children, idx, sub.off)
                               ELSE InsertAt(node.Children, idx, sub.off)
            IN IF shift % 4 # 0
               THEN OpRes(0, FALSE, "array branch shift must be multiple of 4", buf)
               ELSE IF sub.err # NoErr THEN OpRes(0, FALSE, sub.err, sub.buf)
               ELSE IF has /\ ~sub.changed /\ (~isRoot \/ length = rootLength)
               THEN OpRes(off, FALSE, NoErr, sub.buf)
               ELSE emitArrayNode(appendArrayBranchNode(sub.buf, isRoot, shift,
                                      SetBit(node.Bitmap, slot),
                                      IF isRoot THEN rootLength ELSE 0, newChildren))

\* arrSet: grow the root until index fits, then set along the path
arrSet(buf, rootOff, index, value, length) ==
    LET result(set) ==
            IF set.err # NoErr THEN AppRes(0, set.err, set.buf)
            ELSE AppRes(set.off, NoErr, set.buf)
        under(root) ==
            IF root.err # NoErr THEN AppRes(0, root.err, root.buf)
            ELSE result(arrSetNode(root.buf, root.off, index, value, root.buf, TRUE, length))
    IN under(ensureArrayRoot(buf, rootOff, index, length))

\* ArraySetNode
ArraySetNode(buf, rootOff, index, value, length) == arrSet(buf, rootOff, index, value, length)

\* an iteration that does not descend below the node it is given
mapIterShallow(doc, off) ==
    LET node == NodeSliceAt(doc, off).node IN
    [err |-> NoErr,
     entries |-> IF node.KeyType = KeyMap /\ node.Kind = NodeLeaf THEN node.Entries ELSE <<>>]

\* mapIterEntries: depth-first, children in slot order, a leaf's entries in
\* stored order
RECURSIVE mapIterEntries(_, _)
mapIterEntries(doc, off) ==
    LET ns == NodeSliceAt(doc, off)
        node == ns.node
        iterChildren[i \in 0..16] ==
            IF i = 0 THEN [err |-> NoErr, entries |-> <<>>]
            ELSE LET before == iterChildren[i - 1]
                     sub == mapIterEntries(doc, node.Children[i])
                 IN IF before.err # NoErr THEN before
                    ELSE IF sub.err # NoErr THEN [err |-> sub.err, entries |-> before.entries]
                    ELSE [err |-> NoErr, entries |-> before.entries \o sub.entries]
    IN IF ns.err # NoErr THEN [err |-> ns.err, entries |-> <<>>]
       ELSE IF node.KeyType # KeyMap THEN [err |-> "node is not a map", entries |-> <<>>]
       ELSE IF node.Kind = NodeLeaf
       THEN LET leaf == ParseMapLeafNode(node) IN
            IF leaf.err # NoErr THEN [err |-> leaf.err, entries |-> <<>>]
            ELSE [err |-> NoErr, entries |-> leaf.Entries]
       ELSE IF Len(node.Children) # popcount16(node.Bitmap)
       THEN [err |-> "map branch node size mismatch", entries |-> <<>>]
       ELSE iterChildren[Len(node.Children)]

\* arrIterValues: depth-first, children in stored order, a leaf's values in
\* stored order; the callback receives the values, not their indices
RECURSIVE arrIterValues(_, _)
arrIterValues(doc, off) ==
    LET ns == NodeSliceAt(doc, off)
        node == ns.node
        iterAddrs[i \in 0..16] ==
            IF i = 0 THEN [err |-> NoErr, values |-> <<>>]
            ELSE LET before == iterAddrs[i - 1]
                     val == DecodeValueAt(doc, node.ValueAddrs[i])
                 IN IF before.err # NoErr THEN before
                    ELSE IF val.err # NoErr THEN [err |-> val.err, values |-> before.values]
                    ELSE [err |-> NoErr, values |-> Append(before.values, val.val)]
        iterChildren[i \in 0..16] ==
            IF i = 0 THEN [err |-> NoErr, values |-> <<>>]
            ELSE LET before == iterChildren[i - 1]
                     sub == arrIterValues(doc, node.Children[i])
                 IN IF before.err # NoErr THEN before
                    ELSE IF sub.err # NoErr THEN [err |-> sub.err, values |-> before.values]
                    ELSE [err |-> NoErr, values |-> before.values \o sub.values]
    IN IF ns.err # NoErr THEN [err |-> ns.err, values |-> <<>>]
       ELSE IF node.KeyType # KeyArr THEN [err |-> "node is not an array", values |-> <<>>]
       ELSE IF node.Kind = NodeLeaf THEN iterAddrs[Len(node.ValueAddrs)]
       ELSE iterChildren[Len(node.Children)]

(***************************************************************************)
(* ArrayBuilder: arrayRootShift / buildArrayNode / encodeArrayNode.         *)
(***************************************************************************)
arrayEntry(index, value) == [index |-> index, value |-> value]

arrayNode(kind, shift, bitmap, length, isRoot, children, values) ==
    [kind |-> kind, shift |-> shift, bitmap |-> bitmap, length |-> length,
     isRoot |-> isRoot, children |-> children, values |-> values]

RECURSIVE arrayRootShiftFrom(_, _)
arrayRootShiftFrom(maxIndex, shift) ==
    IF maxIndex \div (2 ^ shift) > 15 THEN arrayRootShiftFrom(maxIndex, shift + 4) ELSE shift

\* arrayRootShift: the smallest shift whose root covers index length - 1
arrayRootShift(length) == IF length = 0 THEN 0 ELSE arrayRootShiftFrom(length - 1, 0)

\* the bitmap of the slots entries occupy at shift
RECURSIVE entriesBitmap(_, _)
entriesBitmap(entries, shift) ==
    IF entries = <<>> THEN 0
    ELSE SetBit(entriesBitmap(Tail(entries), shift), IndexSlot(Head(entries).index, shift))

\* the entries that fall in slot at shift, in order
RECURSIVE slotGroup(_, _, _)
slotGroup(entries, shift, slot) ==
    IF entries = <<>> THEN <<>>
    ELSE IF IndexSlot(Head(entries).index, shift) = slot
    THEN <<Head(entries)>> \o slotGroup(Tail(entries), shift, slot)
    ELSE slotGroup(Tail(entries), shift, slot)

\* buildArrayNode: the in-memory node of entries (ascending by index); a
\* child is built with length 0 and without the root flag
RECURSIVE buildArrayNode(_, _, _, _)
buildArrayNode(entries, shift, length, isRoot) ==
    LET bitmap == entriesBitmap(entries, shift)
        slots == {s \in 0..15 : HasBit(bitmap, s)}
        nth[k \in 0..16] ==
            IF k = 0 THEN -1 ELSE LET prev == nth[k - 1] IN Min({s \in slots : s > prev})
        subs == [k \in 1..Cardinality(slots) |->
                    buildArrayNode(slotGroup(entries, shift, nth[k]), shift - 4, 0, FALSE)]
    IN IF shift % 4 # 0
       THEN [err |-> "array node shift must be multiple of 4", node |-> <<>>]
       ELSE IF Len(entries) = 0 /\ shift = 0
       THEN [err |-> NoErr, node |-> arrayNode(NodeLeaf, 0, 0, length, isRoot, <<>>, <<>>)]
       ELSE IF shift = 0
       THEN IF Cardinality(slots) # Len(entries)
            THEN [err |-> "duplicate index in slot", node |-> <<>>]
            ELSE [err |-> NoErr,
                  node |-> arrayNode(NodeLeaf, 0, bitmap, length, isRoot, <<>>,
                               [k \in 1..Cardinality(slots) |->
                                   slotGroup(entries, 0, nth[k])[1].value])]
       ELSE IF \E i \in 2..Len(entries) :
                  IndexSlot(entries[i].index, shift) < IndexSlot(entries[i - 1].index, shift)
       THEN [err |-> "array entries not sorted", node |-> <<>>]
       ELSE IF \E k \in DOMAIN subs : subs[k].err # NoErr
       THEN [err |-> subs[Min({k \in DOMAIN subs : subs[k].err # NoErr})].err, node |-> <<>>]
       ELSE [err |-> NoErr,
             node |-> arrayNode(NodeBranch, shift, bitmap, length, isRoot,
                                [k \in DOMAIN subs |-> subs[k].node], <<>>)]

\* the value addresses of a leaf's values, appended in order
RECURSIVE valueAddresses(_, _)
valueAddresses(buf, values) ==
    IF values = <<>> THEN [err |-> NoErr, buf |-> buf, offs |-> <<>>]
    ELSE LET a == valueAddress(buf, Head(values))
             rest == valueAddresses(a.buf, Tail(values))
         IN IF a.err # NoErr THEN [err |-> a.err, buf |-> a.buf, offs |-> <<>>]
            ELSE [err |-> rest.err, buf |-> rest.buf, offs |-> <<a.off>> \o rest.offs]

\* encodeArrayNode: children first, then the node itself
RECURSIVE encodeArrayNode(_, _)
encodeArrayNode(buf, node) ==
    LET encodeChildren[i \in 0..16] ==
            IF i = 0 THEN [err |-> NoErr, buf |-> buf, offs |-> <<>>]
            ELSE LET before == encodeChildren[i - 1]
                     enc == encodeArrayNode(before.buf, node.children[i])
                 IN IF before.err # NoErr THEN before
                    ELSE [err |-> enc.err, buf |-> enc.buf, offs |-> Append(before.offs, enc.off)]
    IN IF node.kind = NodeLeaf
       THEN LET addrs == valueAddresses(buf, node.values) IN
            IF addrs.err # NoErr THEN AppRes(0, addrs.err, addrs.buf)
            ELSE appendArrayLeafNode(addrs.buf, node.isRoot, node.shift, node.bitmap,
                                     node.length, addrs.offs)
       ELSE LET kids == encodeChildren[Len(node.children)] IN
            IF kids.err # NoErr THEN AppRes(0, kids.err, kids.buf)
            ELSE appendArrayBranchNode(kids.buf, node.isRoot, node.shift, node.bitmap,
                                       node.length, kids.offs)

\* buildArrayFromValues: the array whose element i is values[i]
buildArrayFromValues(buf, values) ==
    LET length == Len(values)
        entries == [i \in 1..length |-> arrayEntry(i - 1, values[i])]
        root == buildArrayNode(entries, arrayRootShift(length), length, TRUE)
    IN IF root.err # NoErr THEN AppRes(0, root.err, buf)
       ELSE encodeArrayNode(buf, root.node)

(***************************************************************************)
(* Documents: a buffer closed by a trailer (trailer.go, document.go).       *)
(***************************************************************************)
TrailerCell(root, prev) ==
    [KeyType |-> KeyNone, Kind |-> "trailer", RootOffset |-> root, PrevRootOffset |-> prev]

\* ParseTrailer: the root and prev-root words in front of the trailer magic
ParseTrailer(b) ==
    IF Len(b) < 1 THEN [err |-> "trailer too short", RootOffset |-> 0, PrevRootOffset |-> 0]
    ELSE IF b[Len(b)].Kind # "trailer"
    THEN [err |-> "missing TRON trailer magic", RootOffset |-> 0, PrevRootOffset |-> 0]
    ELSE [err |-> NoErr, RootOffset |-> b[Len(b)].RootOffset,
          PrevRootOffset |-> b[Len(b)].PrevRootOffset]

\* a trailer written with its two words exchanged
AppendTrailerSwapped(dst, root, prev) == Append(dst, TrailerCell(prev, root))

\* AppendTrailer: root word, prev-root word, magic
AppendTrailer(dst, root, prev) == Append(dst, TrailerCell(root, prev))

\* Builder.BytesWithTrailer: a copy of the buffer with the trailer appended
BytesWithTrailer(buf, rootOffset, prevRootOffset) ==
    AppendTrailer(buf, rootOffset, prevRootOffset)

\* DocType: the top-level document kinds
DocType == [Unknown |-> "DocUnknown", Scalar |-> "DocScalar", Tree |-> "DocTree"]

\* DetectDocType: header magic, trailer, and a node header at the trailer's
\* root; every document that passes is reported as a tree
DetectDocType(b) ==
    LET tr == ParseTrailer(b)
        fail(e) == [docType |-> DocType.Unknown, err |-> e]
    IN IF Len(b) < 2 THEN fail("document too short")
       ELSE IF b[1] # HeaderMagic THEN fail("missing TRON header magic")
       ELSE IF tr.err # NoErr THEN fail(tr.err)
       ELSE IF NodeSliceAt(b, tr.RootOffset).err # NoErr
       THEN fail(NodeSliceAt(b, tr.RootOffset).err)
       ELSE [docType |-> DocType.Tree, err |-> NoErr]

\* EncodeScalarDocument: a fresh builder, the value record, the trailer
\* (address of the record, 0)
EncodeScalarDocument(v) ==
    LET addr == valueAddress(NewBuilder, v) IN
    BytesWithTrailer(addr.buf, addr.off, 0)

\* NewBuilderFromDocument: the document without its trailer, and the trailer
NewBuilderFromDocument(doc) ==
    LET tr == ParseTrailer(doc) IN
    IF tr.err # NoErr THEN [err |-> tr.err, buf |-> <<>>, trailer |-> tr]
    ELSE [err |-> NoErr, buf |-> SubSeq(doc, 1, Len(doc) - 1), trailer |-> tr]

DocRes(err, doc, root) == [err |-> err, doc |-> doc, off |-> root]

\* arrayDocumentBase: root offset, length and a builder over the document
arrayDocumentBase(doc) ==
    LET det == DetectDocType(doc)
        tr == ParseTrailer(doc)
        root == DecodeValueAt(doc, tr.RootOffset)
        length == arrayRootLength(doc, root.val.Offset)
        builder == NewBuilderFromDocument(doc)
        fail(e) == [err |-> e, rootOff |-> 0, length |-> 0, buf |-> <<>>]
    IN IF det.err # NoErr THEN fail(det.err)
       ELSE IF tr.err # NoErr THEN fail(tr.err)
       ELSE IF root.err # NoErr THEN fail(root.err)
       ELSE IF root.val.Type # TypeArr THEN fail("root is not an array")
       ELSE IF length.err # NoErr THEN fail(length.err)
       ELSE IF builder.err # NoErr THEN fail(builder.err)
       ELSE [err |-> NoErr, rootOff |-> tr.RootOffset, length |-> length.length,
             buf |-> builder.buf]

\* ArrSetDocument: set an existing index and close the buffer with the
\* trailer (new root, root of doc)
ArrSetDocument(doc, index, value) ==
    LET close(set, rootOff) ==
            IF set.err # NoErr THEN DocRes(set.err, <<>>, 0)
            ELSE DocRes(NoErr, BytesWithTrailer(set.buf, set.off, rootOff), set.off)
        update(base) ==
            IF base.err # NoErr THEN DocRes(base.err, <<>>, 0)
            ELSE IF index >= base.length THEN DocRes("array index out of range", <<>>, 0)
            ELSE close(arrSet(base.buf, base.rootOff, index, value, base.length), base.rootOff)
    IN update(arrayDocumentBase(doc))

\* the loop of ArrAppendDocument: each value is set at index length with
\* length + 1 on the root the previous arrSet returned
RECURSIVE arrAppendValues(_, _, _, _)
arrAppendValues(buf, rootOff, length, values) ==
    IF values = <<>> THEN AppRes(rootOff, NoErr, buf)
    ELSE LET next(set) ==
                 IF set.err # NoErr THEN set
                 ELSE arrAppendValues(set.buf, set.off, length + 1, Tail(values))
         IN next(arrSet(buf, rootOff, length, Head(values), length + 1))

\* ArrAppendDocument: append the values and close the buffer with the trailer
\* (new root, root of doc); with no values the document itself is returned
ArrAppendDocument(doc, values) ==
    LET close(set, rootOff) ==
            IF set.err # NoErr THEN DocRes(set.err, <<>>, 0)
            ELSE DocRes(NoErr, BytesWithTrailer(set.buf, set.off, rootOff), set.off)
        update(base) ==
            IF base.err # NoErr THEN DocRes(base.err, <<>>, 0)
            ELSE close(arrAppendValues(base.buf, base.rootOff, base.length, values),
                       base.rootOff)
    IN IF values = <<>> THEN DocRes(NoErr, doc, ParseTrailer(doc).RootOffset)
       ELSE update(arrayDocumentBase(doc))

\* arrayDenseValues: the elements 0..length-1, nil where arrGet finds none
arrayDenseValues(doc, rootOff, length) ==
    LET gets == [i \in 1..length |-> arrGet(doc, rootOff, i - 1, TRUE)]
        failed == {i \in 1..length : gets[i].err # NoErr}
    IN IF failed # {} THEN [err |-> gets[Min(failed)].err, values |-> <<>>]
       ELSE [err |-> NoErr,
             values |-> [i \in 1..length |-> IF gets[i].ok THEN gets[i].val ELSE ZeroValue]]

\* a slice that stops one element early
sliceValuesShort(values, start, end) == SubSeq(values, start + 1, end - 1)

\* values[start:end]
sliceValues(values, start, end) == SubSeq(values, start + 1, end)

\* ArrSliceDocument: rebuild the array from values[start:end] in a builder over
\* the document and close the buffer with the trailer (new root, root of doc)
ArrSliceDocument(doc, start, end) ==
    LET close(built, rootOff) ==
            IF built.err # NoErr THEN DocRes(built.err, <<>>, 0)
            ELSE DocRes(NoErr, BytesWithTrailer(built.buf, built.off, rootOff), built.off)
        rebuild(dense, base) ==
            IF dense.err # NoErr THEN DocRes(dense.err, <<>>, 0)
            ELSE close(buildArrayFromValues(base.buf, sliceValues(dense.values, start, end)),
                       base.rootOff)
        update(base) ==
            IF base.err # NoErr THEN DocRes(base.err, <<>>, 0)
            ELSE IF start > end \/ end > base.length
            THEN DocRes("array slice out of range", <<>>, 0)
            ELSE rebuild(arrayDenseValues(doc, base.rootOff, base.length), base)
    IN update(arrayDocumentBase(doc))

\* SetFieldValue: set key (with the caller's hash of it) under the root the
\* caller names and close the buffer with the trailer (new root, that root)
SetFieldValue(doc, root, key, value) ==
    LET builder == NewBuilderFromDocument(doc)
        header == NodeSliceAt(doc, root)
        close(set) ==
            IF set.err # NoErr THEN DocRes(set.err, <<>>, 0)
            ELSE DocRes(NoErr, BytesWithTrailer(set.buf, set.off, root), set.off)
    IN IF Len(doc) = 0 THEN DocRes("trongen: no data", <<>>, 0)
       ELSE IF builder.err # NoErr THEN DocRes(builder.err, <<>>, 0)
       ELSE IF header.err # NoErr THEN DocRes(header.err, <<>>, 0)
       ELSE IF header.node.KeyType # KeyMap THEN DocRes("trongen: root is not a map", <<>>, 0)
       ELSE close(mapSet(builder.buf, root, key, value, 0, builder.buf))

(***************************************************************************)
(* clone.go and merge.go.                                                   *)
(***************************************************************************)
\* cloneMapNode: a copy of the subtree at off of doc, appended to buf; the
\* values of the model's maps are scalars, which cloneValueFromDoc returns
\* as they are
RECURSIVE cloneMapNode(_, _, _)
cloneMapNode(doc, off, buf) ==
    LET ns == NodeSliceAt(doc, off)
        node == ns.node
        cloneChildren[i \in 0..16] ==
            IF i = 0 THEN [err |-> NoErr, buf |-> buf, offs |-> <<>>]
            ELSE LET before == cloneChildren[i - 1]
                     add(sub) ==
                         [err |-> sub.err, buf |-> sub.buf, offs |-> Append(before.offs, sub.off)]
                 IN IF before.err # NoErr THEN before
                    ELSE add(cloneMapNode(doc, node.Children[i], before.buf))
    IN IF ns.err # NoErr THEN AppRes(0, ns.err, buf)
       ELSE IF node.KeyType # KeyMap THEN AppRes(0, "clone expects map node", buf)
       ELSE IF node.Kind = NodeLeaf
       THEN LET leaf == ParseMapLeafNode(node) IN
            IF leaf.err # NoErr THEN AppRes(0, leaf.err, buf)
            ELSE appendMapLeafNodeSorted(buf, leaf.Entries)
       ELSE LET kids == cloneChildren[Len(node.Children)] IN
            IF kids.err # NoErr THEN AppRes(0, kids.err, kids.buf)
            ELSE appendMapBranchNode(kids.buf, node.Bitmap, kids.offs)

\* mapHas
mapHas(doc, off, key, depth) == mapGet(doc, off, key, depth)

\* a merge that leaves the left node as it is whatever the right leaf holds
mergeRightLeafIgnored(entries, off, depth, buf) == OpRes(off, FALSE, NoErr, buf)

\* mergeNodes, right node a leaf: its entries are set into the left node
RECURSIVE mergeRightLeaf(_, _, _, _)
mergeRightLeaf(entries, off, depth, buf) ==
    IF entries = <<>> THEN OpRes(off, FALSE, NoErr, buf)
    ELSE LET join(rest, changed) ==
                 IF rest.err # NoErr THEN rest
                 ELSE OpRes(rest.off, changed \/ rest.changed, NoErr, rest.buf)
             next(set) ==
                 IF set.err # NoErr THEN OpRes(0, FALSE, set.err, set.buf)
                 ELSE join(mergeRightLeaf(Tail(entries), set.off, depth, set.buf), set.changed)
         IN next(mapSet(buf, off, Head(entries).Key, Head(entries).Value, depth, buf))

\* mergeNodes, left node a leaf: its entries are set into the clone of the
\* right node unless the clone has the key
RECURSIVE mergeLeftLeaf(_, _, _, _)
mergeLeftLeaf(entries, off, depth, buf) ==
    IF entries = <<>> THEN OpRes(off, TRUE, NoErr, buf)
    ELSE LET exists == mapHas(buf, off, Head(entries).Key, depth)
             next(set) ==
                 IF set.err # NoErr THEN OpRes(0, FALSE, set.err, set.buf)
                 ELSE mergeLeftLeaf(Tail(entries), set.off, depth, set.buf)
         IN IF exists.err # NoErr THEN OpRes(0, FALSE, exists.err, buf)
            ELSE IF exists.ok THEN mergeLeftLeaf(Tail(entries), off, depth, buf)
            ELSE next(mapSet(buf, off, Head(entries).Key, Head(entries).Value, depth, buf))

\* the union of two bitmaps
bitmapOr(a, b) ==
    LET bits[s \in 0..16] ==
            IF s = 0 THEN 0
            ELSE bits[s - 1] + (IF HasBit(a, s - 1) \/ HasBit(b, s - 1) THEN 2 ^ (s - 1) ELSE 0)
    IN bits[16]

\* mergeNodes: the right-biased union of the left node and the right node
RECURSIVE mergeNodes(_, _, _, _, _, _)
mergeNodes(left, right, leftOff, rightOff, depth, buf) ==
    LET ln == NodeSliceAt(left, leftOff)
        rn == NodeSliceAt(right, rightOff)
        lb == ln.node
        rb == rn.node
        \* the slot loop: the state after the slots below slot
        slots[slot \in 0..16] ==
            IF slot = 0
            THEN [err |-> NoErr, buf |-> buf, children |-> <<>>, changed |-> FALSE,
                  leftIdx |-> 0, rightIdx |-> 0]
            ELSE LET st == slots[slot - 1]
                     s == slot - 1
                     lHas == HasBit(lb.Bitmap, s)
                     rHas == HasBit(rb.Bitmap, s)
                     step(child, changed, b) ==
                         [err |-> NoErr, buf |-> b, children |-> Append(st.children, child),
                          changed |-> st.changed \/ changed,
                          leftIdx |-> st.leftIdx + (IF lHas THEN 1 ELSE 0),
                          rightIdx |-> st.rightIdx + (IF rHas THEN 1 ELSE 0)]
                     take(sub, changed) ==
                         IF sub.err # NoErr THEN [st EXCEPT !.err = sub.err]
                         ELSE step(sub.off, changed, sub.buf)
                     both(merged) == take(merged, merged.changed)
                 IN IF st.err # NoErr THEN st
                    ELSE IF ~lHas /\ ~rHas THEN st
                    ELSE IF lHas /\ rHas
                    THEN both(mergeNodes(left, right, lb.Children[st.leftIdx + 1],
                                         rb.Children[st.rightIdx + 1], depth + 1, st.buf))
                    ELSE IF lHas THEN step(lb.Children[st.leftIdx + 1], FALSE, st.buf)
                    ELSE take(cloneMapNode(right, rb.Children[st.rightIdx + 1], st.buf), TRUE)
    IN IF ln.err # NoErr THEN OpRes(0, FALSE, ln.err, buf)
       ELSE IF rn.err # NoErr THEN OpRes(0, FALSE, rn.err, buf)
       ELSE IF lb.KeyType # KeyMap \/ rb.KeyType # KeyMap
       THEN OpRes(0, FALSE, "merge expects map nodes", buf)
       ELSE IF rb.Kind = NodeLeaf
       THEN LET leaf == ParseMapLeafNode(rb) IN
            IF leaf.err # NoErr THEN OpRes(0, FALSE, leaf.err, buf)
            ELSE mergeRightLeaf(leaf.Entries, leftOff, depth, buf)
       ELSE IF lb.Kind = NodeLeaf
       THEN LET leaf == ParseMapLeafNode(lb)
                into(clone) ==
                    IF clone.err # NoErr THEN OpRes(0, FALSE, clone.err, clone.buf)
                    ELSE IF leaf.err # NoErr THEN OpRes(0, FALSE, leaf.err, clone.buf)
                    ELSE mergeLeftLeaf(leaf.Entries, clone.off, depth, clone.buf)
            IN into(cloneMapNode(right, rightOff, buf))
       ELSE LET end == slots[16] IN
            IF end.err # NoErr THEN OpRes(0, FALSE, end.err, end.buf)
               ELSE IF ~end.changed /\ bitmapOr(lb.Bitmap, rb.Bitmap) = lb.Bitmap
                       /\ end.children = lb.Children
               THEN OpRes(leftOff, FALSE, NoErr, end.buf)
               ELSE emitMapBranch(end.buf, bitmapOr(lb.Bitmap, rb.Bitmap), end.children)

\* MergeMapDocuments: merge right into a builder over left and close the
\* buffer with the trailer (merged root, root of left)
MergeMapDocuments(left, right) ==
    LET leftTrailer == ParseTrailer(left)
        rightTrailer == ParseTrailer(right)
        leftHeader == NodeSliceAt(left, leftTrailer.RootOffset)
        rightHeader == NodeSliceAt(right, rightTrailer.RootOffset)
        base == NewBuilderFromDocument(left)
        close(root) ==
            IF root.err # NoErr THEN DocRes(root.err, <<>>, 0)
            ELSE DocRes(NoErr, BytesWithTrailer(root.buf, root.off, leftTrailer.RootOffset),
                        root.off)
    IN IF leftTrailer.err # NoErr THEN DocRes(leftTrailer.err, <<>>, 0)
       ELSE IF rightTrailer.err # NoErr THEN DocRes(rightTrailer.err, <<>>, 0)
       ELSE IF leftHeader.err # NoErr THEN DocRes(leftHeader.err, <<>>, 0)
       ELSE IF rightHeader.err # NoErr THEN DocRes(rightHeader.err, <<>>, 0)
       ELSE IF leftHeader.node.KeyType # KeyMap \/ rightHeader.node.KeyType # KeyMap
       THEN DocRes("merge expects map roots", <<>>, 0)
       ELSE IF base.err # NoErr THEN DocRes(base.err, <<>>, 0)
       ELSE close(mergeNodes(left, right, leftTrailer.RootOffset, rightTrailer.RootOffset,
                             0, base.buf))

(***************************************************************************)
(* The state: one builder, the roots its caller holds, and history         *)
(* variables recording what the caller has observed.                       *)
(***************************************************************************)
VARIABLES
    buf,      \* the builder's buffer
    mapRoot,  \* the current map root held by the caller (NoRoot if none)
    arrRoot,  \* the current array root held by the caller (NoRoot if none)
    snap,     \* history: every root produced in this life of the buffer,
              \* with the lookups made through it when it was produced
    emitted,  \* history: one sequence per life of the buffer (a life ends at
              \* Reset), holding the cell first emitted at each offset
    last,     \* history: the last operation, its inputs, what lookups
              \* returned before it, and its result
    nops,     \* operations performed
    doc,      \* the document held by a caller of the document-level updates
    trail,    \* history: the document-level operations performed, in order
    mbEntries,    \* the entries held by a MapBuilder
    compileCache, \* the package's cache of compiled expressions
    pc            \* where each goroutine stands in its call of Compile

vars == <<buf, mapRoot, arrRoot, snap, emitted, last, nops, doc, trail, mbEntries,
          compileCache, pc>>

\* the state outside the builder and the document: left alone by their
\* operations
others == <<mbEntries, compileCache, pc>>

defaultCompileCacheSize == 256

\* newExprCache(maxEntries): ll lists the cached expressions, the most
\* recently used first; cache is the set of keys of the map
newExprCache(maxEntries) ==
    [maxEntries |-> IF maxEntries < 0 THEN 0 ELSE maxEntries, ll |-> <<>>, cache |-> {}]

\* the goroutines that call into the package
Goroutines == {"g1", "g2"}

Idle == [at |-> "idle", key |-> ""]

\* NewMapBuilder: no entries; var compileCache = newExprCache(256); no
\* call of Compile under way
OthersInit ==
    /\ mbEntries = <<>>
    /\ compileCache = newExprCache(defaultCompileCacheSize)
    /\ pc = [g \in Goroutines |-> Idle]

NoDoc == <<>>

\* offset 0 holds the header magic: no node lives there, and a trailer whose
\* prev root is 0 names no previous root
NoRoot == 0

Vals == {I64Value(1), I64Value(2)}

ArrIndices == {0, 1, 16, 17}

mapReads(b, off) == [k \in Keys |-> MapGet(b, off, k)]

arrReads(b, off) == [i \in ArrIndices |-> ArrGet(b, off, i)]

Snapshot(b, kind, off) ==
    [kind |-> kind, off |-> off,
     reads |-> IF kind = KeyMap THEN mapReads(b, off) ELSE arrReads(b, off)]

\* the cells first emitted in the current life, extended by the cells b adds
TrackLife(em, b) ==
    [i \in 1..(IF Len(b) > Len(em) THEN Len(b) ELSE Len(em)) |->
        IF i <= Len(em) THEN em[i] ELSE b[i]]

Track(lives, b) == [lives EXCEPT ![Len(lives)] = TrackLife(lives[Len(lives)], b)]

Op(op, root, key, index, val, len, res, changed, before) ==
    [op |-> op, root |-> root, key |-> key, index |-> index, val |-> val, len |-> len,
     newRoot |-> res.off, changed |-> changed, err |-> res.err, before |-> before,
     again |-> /\ op = "map_set" /\ last.op = "map_set" /\ last.err = NoErr
               /\ last.key = key /\ last.val = val /\ last.newRoot = root]

NoOp == [op |-> "none", root |-> NoRoot, key |-> <<>>, index |-> 0, val |-> ZeroValue,
         len |-> 0, newRoot |-> NoRoot, changed |-> FALSE, err |-> NoErr,
         before |-> <<>>, again |-> FALSE]

\* the maps and arrays a builder holds when the caller starts updating
Built ==
    { [entries |-> <<>>, values |-> [i \in 1..16 |-> I64Value(1)]],
      [entries |-> <<mapEntry(KeyA, I64Value(1), XXH32(KeyA)),
                     mapEntry(KeyV, I64Value(1), XXH32(KeyV))>>,
       values |-> <<I64Value(1), I64Value(2)>>],
      [entries |-> <<mapEntry(KeyTqt, I64Value(1), XXH32(KeyTqt)),
                     mapEntry(KeyDluw, I64Value(2), XXH32(KeyDluw))>>,
       values |-> <<>>] }

Init ==
    \E built \in Built :
        LET m == MapBuilderBuild(NewBuilder, built.entries)
            a == buildArrayFromValues(m.buf, built.values)
        IN /\ m.err = NoErr /\ a.err = NoErr
           /\ buf = a.buf
           /\ mapRoot = m.off
           /\ arrRoot = a.off
           /\ snap = {Snapshot(a.buf, KeyMap, m.off), Snapshot(a.buf, KeyArr, a.off)}
           /\ emitted = <<a.buf>>
           /\ last = NoOp
           /\ nops = 0
           /\ doc = NoDoc
           /\ trail = <<>>
           /\ OthersInit

\* what every operation on the builder does to the history variables
Record(b, kind, res, op) ==
    /\ buf' = b
    /\ snap' = IF res.err = NoErr THEN snap \cup {Snapshot(b, kind, res.off)} ELSE snap
    /\ emitted' = Track(emitted, b)
    /\ last' = op
    /\ nops' = nops + 1
    /\ UNCHANGED <<doc, trail, others>>

\* MapSetNode(builder, mapRoot, key, val)
DoMapSet(key, val) ==
    /\ nops < MaxOps /\ mapRoot # NoRoot
    /\ \E r \in {MapSetNode(buf, mapRoot, key, val)} :
       /\ Record(r.buf, KeyMap, r,
                 Op("map_set", mapRoot, key, 0, val, 0, r, r.changed, buf))
       /\ mapRoot' = IF r.err = NoErr THEN r.off ELSE mapRoot
       /\ UNCHANGED arrRoot

\* MapDelNode(builder, mapRoot, key)
DoMapDel(key) ==
    /\ nops < MaxOps /\ mapRoot # NoRoot
    /\ \E r \in {MapDelNode(buf, mapRoot, key)} :
       /\ Record(r.buf, KeyMap, r,
                 Op("map_del", mapRoot, key, 0, ZeroValue, 0, r, r.changed, buf))
       /\ mapRoot' = IF r.err = NoErr THEN r.off ELSE mapRoot
       /\ UNCHANGED arrRoot

\* ArraySetNode(builder, arrRoot, index, value, length)
DoArrSet(index, val, length) ==
    /\ nops < MaxOps /\ arrRoot # NoRoot
    /\ \E r \in {ArraySetNode(buf, arrRoot, index, val, length)} :
       /\ Record(r.buf, KeyArr, r,
                 Op("arr_set", arrRoot, <<>>, index, val, length, r, r.off # arrRoot, buf))
       /\ arrRoot' = IF r.err = NoErr THEN r.off ELSE arrRoot
       /\ UNCHANGED mapRoot

\* EmptyMapRoot(builder), by a caller that holds no map root
DoEmptyMapRoot ==
    /\ nops < MaxOps /\ mapRoot = NoRoot
    /\ \E r \in {EmptyMapRoot(buf)} :
       /\ Record(r.buf, KeyMap, r,
                 Op("empty_map", NoRoot, <<>>, 0, ZeroValue, 0, r, TRUE, buf))
       /\ mapRoot' = IF r.err = NoErr THEN r.off ELSE mapRoot
       /\ UNCHANGED arrRoot

\* an empty array built by a caller that holds no array root
DoEmptyArray ==
    /\ nops < MaxOps /\ arrRoot = NoRoot
    /\ \E r \in {buildArrayFromValues(buf, <<>>)} :
       /\ Record(r.buf, KeyArr, r,
                 Op("empty_arr", NoRoot, <<>>, 0, ZeroValue, 0, r, TRUE, buf))
       /\ arrRoot' = IF r.err = NoErr THEN r.off ELSE arrRoot
       /\ UNCHANGED mapRoot

\* Builder.Reset: the buffer is cut back to the header; the caller drops the
\* roots of the buffer's previous life
DoReset ==
    /\ nops < MaxOps
    /\ buf' = ResetBuf(buf)
    /\ mapRoot' = NoRoot
    /\ arrRoot' = NoRoot
    /\ snap' = {}
    /\ emitted' = Append(emitted, ResetBuf(buf))
    /\ last' = [NoOp EXCEPT !.op = "reset", !.before = buf]
    /\ nops' = nops + 1
    /\ UNCHANGED <<doc, trail, others>>

\* the length arguments a caller passes: one past the index, or the length
\* the array has
ArrLengths(index) ==
    {index + 1} \cup
    (LET len == arrayRootLength(buf, arrRoot) IN IF len.err = NoErr THEN {len.length} ELSE {})

Next ==
    \/ \E key \in Keys, val \in Vals : DoMapSet(key, val)
    \/ \E key \in Keys : DoMapDel(key)
    \/ \E index \in ArrIndices, val \in Vals :
          \E length \in ArrLengths(index) : DoArrSet(index, val, length)
    \/ DoEmptyMapRoot
    \/ DoEmptyArray
    \/ DoReset

Spec == Init /\ [][Next]_vars

(***************************************************************************)
(* Document-level updates: a caller holds a document and replaces it by    *)
(* the document an update returns.                                         *)
(***************************************************************************)
\* documents as FromJSON and the builders close them: trailer (root, 0)
InitDocs ==
    { BytesWithTrailer(m.buf, m.off, NoRoot) :
        m \in { MapBuilderBuild(NewBuilder, b.entries) : b \in Built } }
    \cup
    { BytesWithTrailer(a.buf, a.off, NoRoot) :
        a \in { buildArrayFromValues(NewBuilder, b.values) : b \in Built } }

\* the right-hand documents of a merge
RightDocs ==
    { BytesWithTrailer(m.buf, m.off, NoRoot) :
        m \in { MapBuilderBuild(NewBuilder, entries) :
                  entries \in { <<mapEntry(KeyA, I64Value(2), XXH32(KeyA))>>,
                                <<mapEntry(KeyV, I64Value(2), XXH32(KeyV)),
                                  mapEntry(KeyDluw, I64Value(1), XXH32(KeyDluw))>> } } }

DocInit ==
    /\ doc \in InitDocs
    /\ buf = NewBuilder
    /\ mapRoot = NoRoot
    /\ arrRoot = NoRoot
    /\ snap = {}
    /\ emitted = <<NewBuilder>>
    /\ last = NoOp
    /\ nops = 0
    /\ trail = <<>>
    /\ OthersInit

\* what every document update does: the caller keeps the returned document
\* (val holds the value set or, for a merge, the right-hand document)
Replace(res, op) ==
    /\ doc' = IF res.err = NoErr THEN res.doc ELSE doc
    /\ last' = op
    /\ nops' = nops + 1
    /\ trail' = Append(trail, op)
    /\ UNCHANGED <<buf, mapRoot, arrRoot, snap, emitted, others>>

\* ArrSetDocument(doc, index, value)
DoArrSetDocument(index, val) ==
    /\ nops < MaxOps
    /\ \E r \in {ArrSetDocument(doc, index, val)} :
       Replace(r, Op("arr_set_doc", ParseTrailer(doc).RootOffset, <<>>, index, val, 0,
                     r, r.err = NoErr, doc))

\* SetFieldValue(doc, root, key, hash, value)
DoSetFieldValue(root, key, val) ==
    /\ nops < MaxOps
    /\ \E r \in {SetFieldValue(doc, root, key, val)} :
       Replace(r, Op("set_field", root, key, 0, val, 0, r, r.err = NoErr, doc))

\* MergeMapDocuments(doc, right)
DoMergeMapDocuments(right) ==
    /\ nops < MaxOps
    /\ \E r \in {MergeMapDocuments(doc, right)} :
       Replace(r, Op("merge", ParseTrailer(doc).RootOffset, <<>>, 0, right, 0,
                     r, r.err = NoErr, doc))

\* ArrAppendDocument(doc, values...): the caller keeps the returned document
AppendStep(values) ==
    \E r \in {ArrAppendDocument(doc, values)} :
        Replace(r, Op("arr_append", ParseTrailer(doc).RootOffset, <<>>, 0, values, 0,
                      r, r.err = NoErr, doc))

\* the values a caller appends in one call
AppendSeqs == {<<I64Value(2)>>, <<I64Value(1), I64Value(2)>>}

DoArrAppendDocument(values) ==
    /\ nops < MaxOps
    /\ AppendStep(values)

\* ArrSliceDocument(doc, start, end)
DoArrSliceDocument(start, end) ==
    /\ nops < MaxOps
    /\ \E r \in {ArrSliceDocument(doc, start, end)} :
       Replace(r, Op("arr_slice", ParseTrailer(doc).RootOffset, <<>>, start, ZeroValue, end,
                     r, r.err = NoErr, doc))

\* the slice ends a caller passes: the length of the array or up to two less
SliceEnds ==
    LET len == arrayRootLength(doc, ParseTrailer(doc).RootOffset).length
    IN {e \in {len - 2, len - 1, len} : e >= 0}

\* the roots a caller of SetFieldValue holds: the root the trailer names and
\* the previous root, when the trailer names one
HeldRoots == {ParseTrailer(doc).RootOffset, ParseTrailer(doc).PrevRootOffset} \ {NoRoot}

DocNext ==
    \/ \E index \in ArrIndices, val \in Vals : DoArrSetDocument(index, val)
    \/ \E root \in HeldRoots, key \in Keys, val \in Vals : DoSetFieldValue(root, key, val)
    \/ \E right \in RightDocs : DoMergeMapDocuments(right)
    \/ \E values \in AppendSeqs : DoArrAppendDocument(values)
    \/ \E start \in {0, 1}, end \in SliceEnds : DoArrSliceDocument(start, end)

DocSpec == DocInit /\ [][DocNext]_vars

(***************************************************************************)
(* Properties of the map engine.                                           *)
(***************************************************************************)
\* what map_get returned for key under the root the last operation was given
PreGet(key) == MapGet(last.before, last.root, key)

MapSetReturned == last.op = "map_set" /\ last.err = NoErr

MapDelReturned == last.op = "map_del" /\ last.err = NoErr

\* C1: after map_set(root, k, v) returns root', map_get(root', k) returns
\* (v, present) and every other key reads under root' as it read under root.
C1_MapSetGet ==
    MapSetReturned =>
        /\ MapGet(buf, last.newRoot, last.key) = GetRes(last.val, TRUE, NoErr)
        /\ \A j \in Keys \ {last.key} : MapGet(buf, last.newRoot, j) = PreGet(j)

\* a map_set that wrote a new root into a map holding another key behind the
\* same root slot
C1_Witness ==
    /\ MapSetReturned /\ last.changed
    /\ ~PreGet(last.key).ok
    /\ \E j \in Keys \ {last.key} :
          PreGet(j).ok /\ HashSlot(XXH32(j), 0) = HashSlot(XXH32(last.key), 0)

\* C2: lookups through a root obtained earlier return what they returned when
\* that root was produced, whatever map_set, map_del and arr_set calls
\* followed on the same builder.
C2_Persistence ==
    \A s \in snap :
        s.reads = IF s.kind = KeyMap THEN mapReads(buf, s.off) ELSE arrReads(buf, s.off)

\* an old map root that reads differently from the current one, after two
\* later operations the last of which wrote to the array
C2_Witness ==
    /\ last.op = "arr_set" /\ last.err = NoErr /\ last.changed /\ nops >= 2
    /\ \E s \in snap :
          /\ s.kind = KeyMap /\ s.off # mapRoot
          /\ \E k \in Keys : s.reads[k].ok /\ s.reads[k] # MapGet(buf, mapRoot, k)

\* the cells of one life of the buffer are still where they were emitted
Intact(life) == \A i \in 1..Len(life) : i <= Len(buf) /\ buf[i] = life[i]

\* C3 (as stated): over any sequence of builder operations, every offset the
\* builder has ever returned keeps addressing the same node.
C3_NeverRewritten == \A n \in 1..Len(emitted) : Intact(emitted[n])

\* C3 (amended): every offset returned since the last Reset keeps addressing
\* the same node; Reset is the one operation that discards emitted bytes.
C3_NeverRewrittenSinceReset == Intact(emitted[Len(emitted)])

\* two operations have appended nodes to a buffer that was never Reset
C3_Witness ==
    /\ nops >= 2 /\ last.op \in {"map_set", "map_del", "arr_set"} /\ last.changed
    /\ Len(emitted) = 1 /\ Len(buf) > Len(last.before) /\ Cardinality(snap) >= 4

\* C5: map_set(root, k, v) where k already maps to a value equal to v returns
\* root itself and appends nothing; so does a second map_set(root', k, v) on
\* the root a first map_set(root, k, v) returned.
C5_MapSetIdempotent ==
    /\ (MapSetReturned /\ PreGet(last.key).ok /\ valueEqual(PreGet(last.key).val, last.val))
          => last.newRoot = last.root /\ buf = last.before
    /\ (last.op = "map_set" /\ last.again)
          => last.err = NoErr /\ last.newRoot = last.root /\ buf = last.before

\* the second of two identical map_set calls, the first of which wrote
C5_Witness ==
    /\ last.op = "map_set" /\ last.again /\ last.newRoot = last.root
    /\ \E s \in snap : s.kind = KeyMap /\ s.off # last.root /\ ~s.reads[last.key].ok

\* C6: after map_del(root, k) returns root', map_get(root', k) reports that k
\* is not present.
C6_MapDelGet ==
    MapDelReturned => MapGet(buf, last.newRoot, last.key) = GetRes(ZeroValue, FALSE, NoErr)

\* a map_del that removed a key from a leaf shared with a colliding key
C6_Witness ==
    /\ MapDelReturned /\ last.changed /\ PreGet(last.key).ok
    /\ \E j \in Keys \ {last.key} : PreGet(j).ok /\ XXH32(j) = XXH32(last.key)

\* C7: map_del(root, k) for a key k not present under root returns root.
C7_MapDelMissing ==
    (last.op = "map_del" /\ PreGet(last.key) = GetRes(ZeroValue, FALSE, NoErr))
        => last.err = NoErr /\ last.newRoot = last.root

\* a map_del of a missing key whose hash path ends in a leaf of another key
C7_Witness ==
    /\ MapDelReturned /\ ~PreGet(last.key).ok /\ last.newRoot = last.root
    /\ \E j \in Keys \ {last.key} : PreGet(j).ok /\ XXH32(j) = XXH32(last.key)

\* C8: a map_del that removes the last remaining key returns an empty leaf,
\* over which mapIterEntries yields nothing.
C8_MapDelLast ==
    (MapDelReturned /\ PreGet(last.key).ok /\ \A j \in Keys \ {last.key} : ~PreGet(j).ok)
        => /\ NodeSliceAt(buf, last.newRoot).err = NoErr
           /\ NodeSliceAt(buf, last.newRoot).node = MapLeafCell(<<>>)
           /\ mapIterEntries(buf, last.newRoot) = [err |-> NoErr, entries |-> <<>>]

\* the last key is removed from a map whose root was a branch, after an
\* earlier delete
C8_Witness ==
    /\ MapDelReturned /\ PreGet(last.key).ok /\ \A j \in Keys \ {last.key} : ~PreGet(j).ok
    /\ NodeSliceAt(last.before, last.root).node.Kind = NodeBranch
    /\ nops >= 2

(***************************************************************************)
(* Properties of the array engine.                                         *)
(***************************************************************************)
ArrSetReturned == last.op = "arr_set" /\ last.err = NoErr

\* the length the array had under the root the last operation was given
PreLength == arrayRootLength(last.before, last.root).length

C10_ArrSetBeyondLengthFails ==
    (last.op = "arr_set" /\ last.index > PreLength) => last.err = "array index out of range"

(***************************************************************************)
(* Properties of the document-level updates (under DocSpec).               *)
(***************************************************************************)
DocUpdated == last.op \in {"arr_set_doc", "set_field", "merge"} /\ last.err = NoErr

\* the lookups through root of document d
docReads(d, root) ==
    IF NodeSliceAt(d, root).node.KeyType = KeyMap THEN mapReads(d, root) ELSE arrReads(d, root)

\* the update of the last operation is what reads through root return
ShowsUpdate(root) ==
    CASE last.op = "arr_set_doc" -> ArrGet(doc, root, last.index) = GetRes(last.val, TRUE, NoErr)
      [] last.op = "set_field" ->
            root = last.newRoot /\ MapGet(doc, root, last.key) = GetRes(last.val, TRUE, NoErr)
      [] last.op = "merge" ->
            \A k \in Keys :
                LET r == MapGet(last.val, ParseTrailer(last.val).RootOffset, k) IN
                r.ok => MapGet(doc, root, k) = r

C11_LengthGrowsByAtMostOne ==
    ArrSetReturned => arrayRootLength(buf, last.newRoot).length <= PreLength + 1

(***************************************************************************)
(* Appending to the empty array, one value at a time.                      *)
(***************************************************************************)
\* the document of the empty array
EmptyArrayDoc ==
    LET a == buildArrayFromValues(NewBuilder, <<>>) IN BytesWithTrailer(a.buf, a.off, NoRoot)

AppendInit ==
    /\ doc = EmptyArrayDoc
    /\ buf = NewBuilder
    /\ mapRoot = NoRoot
    /\ arrRoot = NoRoot
    /\ snap = {}
    /\ emitted = <<NewBuilder>>
    /\ last = NoOp
    /\ nops = 0
    /\ trail = <<>>
    /\ OthersInit

\* the values appended so far
Appended == [i \in 1..Len(trail) |-> trail[i].val[1]]

\* ArrAppendDocument(doc, I64(n)), the appended values strictly ascending
DoAppendOne(n) ==
    /\ nops < MaxAppend
    /\ n >= nops /\ n <= nops + MaxSkip
    /\ trail # <<>> => n > Appended[Len(trail)].I64
    /\ AppendStep(<<I64Value(n)>>)

AppendNext == \E n \in 0..(MaxAppend + MaxSkip) : DoAppendOne(n)

AppendSpec == AppendInit /\ [][AppendNext]_vars

\* the smallest multiple of 4 with (n - 1) >> shift <= 0xF
MinShift(n) == IF n = 0 THEN 0 ELSE Min({sh \in {0, 4, 8, 12} : (n - 1) \div (2 ^ sh) <= 15})

\* C12: after appending v0..v(n-1) to the empty array one at a time, the root
\* stores length n, arr_get(k) returns vk for every k < n, and the root shift
\* is the smallest multiple of 4 with (n - 1) >> shift <= 0xF.
C12_AppendsFromEmpty ==
    (\A i \in 1..Len(trail) : trail[i].op = "arr_append" /\ Len(trail[i].val) = 1)
        => LET root == ParseTrailer(doc).RootOffset
               n == Len(trail)
           IN /\ Len(trail) > 0 => trail[1].before = EmptyArrayDoc /\ last.err = NoErr
              /\ arrayRootLength(doc, root) = [err |-> NoErr, length |-> n]
              /\ \A k \in 0..(n - 1) : ArrGet(doc, root, k) = GetRes(Appended[k + 1], TRUE, NoErr)
              /\ NodeSliceAt(doc, root).node.Shift = MinShift(n)

\* eighteen values appended, not all of them equal to their index: the root
\* has grown to shift 4
C12_Witness ==
    /\ Len(trail) = 18 /\ last.op = "arr_append" /\ last.err = NoErr
    /\ Appended[18].I64 > 17 /\ Appended[1].I64 = 0
    /\ NodeSliceAt(doc, ParseTrailer(doc).RootOffset).node.Shift = 4

(***************************************************************************)
(* Append followed by slice (under DocSpec).                               *)
(***************************************************************************)
\* the length and the elements of the array document d
ArrayContents(d) ==
    LET root == ParseTrailer(d).RootOffset
        len == arrayRootLength(d, root)
    IN [err |-> len.err, length |-> len.length,
        elems |-> [k \in 0..(len.length - 1) |-> ArrGet(d, root, k)]]

\* the array of d encoded afresh from its elements
Reencoded(d) ==
    LET root == ParseTrailer(d).RootOffset
        dense == arrayDenseValues(d, root, arrayRootLength(d, root).length)
    IN buildArrayFromValues(NewBuilder, dense.values)

\* the last operation sliced the result of an append back to [0, len(a)),
\* where a is the document the append was given
SlicedBackAfterAppend ==
    /\ Len(trail) >= 2
    /\ last.op = "arr_slice" /\ last.err = NoErr
    /\ trail[Len(trail) - 1].op = "arr_append" /\ trail[Len(trail) - 1].err = NoErr
    /\ last.index = 0
    /\ last.len = ArrayContents(trail[Len(trail) - 1].before).length

\* C13: slicing the result of arr_append(a, x) to [0, len(a)) yields an array
\* equal to a: the same length, the same element at every index, and the same
\* encoding when both are encoded afresh.
C13_SliceOfAppend ==
    SlicedBackAfterAppend =>
        LET a == trail[Len(trail) - 1].before IN
        /\ ArrayContents(doc).err = NoErr
        /\ ArrayContents(doc) = ArrayContents(a)
        /\ Reencoded(doc) = Reencoded(a)

\* one value appended to a non-empty array and sliced off again
C13_Witness ==
    /\ SlicedBackAfterAppend
    /\ Len(trail[Len(trail) - 1].val) = 1
    /\ ArrayContents(doc).length >= 2
    /\ ArrayContents(last.before).length = ArrayContents(doc).length + 1

(***************************************************************************)
(* Further properties of the builder-level operations (under Spec).        *)
(***************************************************************************)
\* what arr_get returned for the index of the last operation under the root it
\* was given
PreArrGet == ArrGet(last.before, last.root, last.index)

\* C14: arr_set(root, i, v, length) where index i already holds a value equal
\* to v and the root stores length returns the root offset it was given.
C14_ArrSetNoOp ==
    (/\ last.op = "arr_set"
     /\ PreArrGet.err = NoErr /\ PreArrGet.ok /\ valueEqual(PreArrGet.val, last.val)
     /\ PreLength = last.len)
        => last.err = NoErr /\ last.newRoot = last.root

\* an equal value set again below a root branch, after the set that grew the
\* root
C14_Witness ==
    /\ last.op = "arr_set" /\ last.err = NoErr /\ nops >= 2
    /\ PreArrGet.ok /\ valueEqual(PreArrGet.val, last.val) /\ PreLength = last.len
    /\ last.newRoot = last.root
    /\ NodeSliceAt(buf, last.root).node.Kind = NodeBranch

\* the last operation appended to the builder and returned the offset of the
\* node it appended last
AppendedNode == last.op \in {"map_set", "map_del", "arr_set", "empty_map", "empty_arr"}
             /\ last.err = NoErr /\ last.changed

\* the offsets appends returned in life n of the buffer before the last
\* operation (the header at offset 0 is not an append)
EarlierOffsets(n) ==
    {i - 1 : i \in {j \in 2..Len(emitted[n]) : n < Len(emitted) \/ j <= Len(last.before)}}

\* C15 (as stated): every append returns an offset strictly greater than every
\* offset any earlier append on that builder returned.
C15_OffsetsIncrease ==
    AppendedNode => \A n \in 1..Len(emitted) : \A off \in EarlierOffsets(n) : last.newRoot > off

\* C15 (amended): every append returns an offset strictly greater than every
\* offset returned by an earlier append since the last Reset.
C15_OffsetsIncreaseSinceReset ==
    AppendedNode => \A off \in EarlierOffsets(Len(emitted)) : last.newRoot > off

\* the second of two operations that appended to a buffer never Reset
C15_Witness ==
    /\ AppendedNode /\ nops >= 2 /\ Len(emitted) = 1
    /\ Cardinality({s.off : s \in snap}) >= 4
    /\ \A s \in snap : s.off <= last.newRoot
    /\ EarlierOffsets(1) # {}

(***************************************************************************)
(* Writes that fail: a caller hands MapSetNode or ArraySetNode a value of   *)
(* a type the encoders do not know.                                        *)
(***************************************************************************)
BadValue == Value(TypeBad, FALSE, 0, <<>>, 0)

FailNext ==
    \/ \E key \in Keys, val \in Vals \cup {BadValue} : DoMapSet(key, val)
    \/ \E index \in ArrIndices, val \in Vals \cup {BadValue} :
          \E length \in ArrLengths(index) : DoArrSet(index, val, length)

FailSpec == Init /\ [][FailNext]_vars

FailedWrite == last.op \in {"map_set", "arr_set"} /\ last.err # NoErr

\* C16: when a map or array write returns an error, every cell the builder
\* held before the call is still in place and unchanged, and every root
\* returned earlier reads the same data
C16_FailedWriteKeepsEmitted ==
    FailedWrite =>
        /\ Len(buf) >= Len(last.before)
        /\ \A i \in 1..Len(last.before) : buf[i] = last.before[i]
        /\ \A s \in snap : Snapshot(buf, s.kind, s.off) = s

\* an array write that failed after it had grown the root, following a
\* write that succeeded
C16_Witness ==
    /\ FailedWrite /\ last.op = "arr_set"
    /\ Len(buf) > Len(last.before)
    /\ nops >= 2 /\ Cardinality(snap) >= 3

\* a map write that failed after it had appended a leaf
C16_MapFailedPartWay ==
    FailedWrite /\ last.op = "map_set" /\ Len(buf) > Len(last.before)

(***************************************************************************)
(* Detecting the kind of a document: a caller holds tree documents,        *)
(* scalar documents and byte strings that are not documents, updates the   *)
(* document it holds and asks for its kind.                                *)
(***************************************************************************)
\* tree documents, scalar documents, and malformed ones: empty, header only,
\* trailer cut off, header cut off, root offset past the end
DetectDocs ==
    InitDocs
    \cup {EncodeScalarDocument(v) : v \in {ZeroValue, BitValue(TRUE), I64Value(1)}}
    \cup {<<>>, NewBuilder, BytesWithTrailer(NewBuilder, 5, 0)}
    \cup {SubSeq(d, 1, Len(d) - 1) : d \in InitDocs}
    \cup {Tail(d) : d \in InitDocs}

DetectOp(det, d) ==
    [op |-> "detect", root |-> NoRoot, key |-> <<>>, index |-> 0, val |-> ZeroValue,
     len |-> 0, newRoot |-> NoRoot, changed |-> FALSE, err |-> det.err, before |-> d,
     again |-> FALSE, docType |-> det.docType]

\* DetectDocType(doc)
DoDetectDocType ==
    /\ nops < MaxOps
    /\ last' = DetectOp(DetectDocType(doc), doc)
    /\ nops' = nops + 1
    /\ UNCHANGED <<buf, mapRoot, arrRoot, snap, emitted, doc, trail, others>>

DetectNext ==
    \/ DoDetectDocType
    \/ \E root \in HeldRoots, key \in Keys, val \in Vals : DoSetFieldValue(root, key, val)
    \/ \E values \in AppendSeqs : DoArrAppendDocument(values)

\* a caller holding one of the documents
DetectInit ==
    /\ doc \in DetectDocs
    /\ buf = NewBuilder /\ mapRoot = NoRoot /\ arrRoot = NoRoot
    /\ snap = {} /\ emitted = <<NewBuilder>>
    /\ last = NoOp /\ nops = 0 /\ trail = <<>> /\ OthersInit

DetectSpec == DetectInit /\ [][DetectNext]_vars

\* header magic, trailer, and a root offset inside the document
WellFramed(d) ==
    /\ Len(d) >= 2 /\ d[1] = HeaderMagic /\ d[Len(d)].Kind = "trailer"
    /\ d[Len(d)].RootOffset \in 0..(Len(d) - 1)

RootCell(d) == d[d[Len(d)].RootOffset + 1]

ScalarRoot(d) ==
    /\ WellFramed(d) /\ RootCell(d).Kind = "value"
    /\ RootCell(d).Value.Type \notin {TypeArr, TypeMap}

TreeRoot(d) == WellFramed(d) /\ RootCell(d).KeyType \in {KeyMap, KeyArr}

Detected == last.op = "detect"

\* C17: detect_doc_type returns Scalar for a well-framed document whose root
\* offset addresses a non-container value record, Tree for one whose root
\* offset addresses a map or array node, and an error for malformed framing
C17_DetectDocType ==
    Detected =>
        /\ ScalarRoot(last.before) => last.err = NoErr /\ last.docType = DocType.Scalar
        /\ TreeRoot(last.before) => last.err = NoErr /\ last.docType = DocType.Tree
        /\ ~WellFramed(last.before) => last.err # NoErr

\* the part of C17 the code keeps: trees are trees, malformed framing fails
C17_TreeAndMalformed ==
    Detected =>
        /\ TreeRoot(last.before) => last.err = NoErr /\ last.docType = DocType.Tree
        /\ ~WellFramed(last.before) => last.err # NoErr

\* a scalar document is reported as a tree
C17_ScalarReportedAsTree ==
    Detected /\ ScalarRoot(last.before) /\ last.err = NoErr /\ last.docType = DocType.Tree

(***************************************************************************)
(* Iteration over a map and over an array.                                 *)
(***************************************************************************)
\* the callback invocations of mapIterEntries under the caller's map root
MapIterCalls == mapIterEntries(buf, mapRoot)

PresentKeys == {k \in Keys : MapGet(buf, mapRoot, k).ok}

\* C18: for a map produced by any sequence of sets and deletes, iteration
\* invokes the callback exactly once for every present key and for no other
C18_MapIterVisitsPresentKeysOnce ==
    LET once(calls, present) ==
            /\ calls.err = NoErr
            /\ \A i \in 1..Len(calls.entries) : calls.entries[i].Key \in present
            /\ \A k \in present :
                  Cardinality({i \in 1..Len(calls.entries) : calls.entries[i].Key = k}) = 1
    IN mapRoot # NoRoot => once(MapIterCalls, PresentKeys)

\* a map of two keys under a branch, left by a set that added a third key
\* and a delete that removed one
C18_Witness ==
    /\ MapDelReturned /\ last.changed /\ nops = 2
    /\ Cardinality(PresentKeys) = 2 /\ Len(MapIterCalls.entries) = 2
    /\ NodeSliceAt(buf, mapRoot).node.Kind = NodeBranch
    /\ \E s \in snap : s.kind = KeyMap /\ Cardinality({k \in Keys : s.reads[k].ok}) = 3

\* the callback invocations of arrIterValues under the caller's array root
ArrIterCalls == arrIterValues(buf, arrRoot)

RootLength == arrayRootLength(buf, arrRoot).length

\* the callback is invoked n times, and the k-th invocation receives the
\* value at index k - 1
IteratesInIndexOrder ==
    /\ ArrIterCalls.err = NoErr
    /\ Len(ArrIterCalls.values) = RootLength
    /\ \A i \in 0..(RootLength - 1) :
          /\ i < Len(ArrIterCalls.values)
          /\ ArrGet(buf, arrRoot, i) = GetRes(ArrIterCalls.values[i + 1], TRUE, NoErr)

\* C19: for any array with root length n, arr_iter_values invokes the
\* callback exactly once for each index 0..n-1, in ascending index order
C19_ArrIterVisitsEveryIndex == arrRoot # NoRoot => IteratesInIndexOrder

\* an array that holds a value at every index below its root length and at
\* no index from there on
DenseArray ==
    /\ \A i \in 0..(RootLength - 1) : arrGet(buf, arrRoot, i, TRUE).ok
    /\ \A i \in ArrIndices : i >= RootLength => ~arrGet(buf, arrRoot, i, TRUE).ok

\* the part of C19 the code keeps: dense arrays are iterated index by index
C19_DenseArraysIterate == arrRoot # NoRoot /\ DenseArray => IteratesInIndexOrder

\* a dense array of 17 values under a branch root, grown from 16 by a set at
\* index 16, is iterated in full
C19_DenseIterated ==
    /\ last.op = "arr_set" /\ last.err = NoErr /\ last.index = 16
    /\ RootLength = 17 /\ DenseArray /\ IteratesInIndexOrder
    /\ ArrIterCalls.values[17] # ArrIterCalls.values[1]

\* an array whose root length is 17 and that holds three values
C19_SparseIterated ==
    /\ last.op = "arr_set" /\ last.err = NoErr
    /\ RootLength = 17 /\ Len(ArrIterCalls.values) = 3

(***************************************************************************)
(* Merging map documents.                                                  *)
(***************************************************************************)
\* what map_get returns for key under the root the document's trailer names
DocGet(d, key) == MapGet(d, ParseTrailer(d).RootOffset, key)

Merged == last.op = "merge" /\ last.err = NoErr

\* C20: merge_map_documents(left, right) yields a map whose keys are the
\* keys of left and of right; a key present in right reads right's value,
\* a key present only in left reads left's value
C20_MergeRightBiasedUnion ==
    Merged =>
        \A k \in Keys :
            DocGet(doc, k) = IF DocGet(last.val, k).ok THEN DocGet(last.val, k)
                             ELSE DocGet(last.before, k)

\* a merge of two maps with a key only in left, a key only in right, a key
\* in both under different values, and a key in neither
C20_Witness ==
    /\ Merged
    /\ \E k \in Keys : DocGet(last.before, k).ok /\ ~DocGet(last.val, k).ok /\ DocGet(doc, k).ok
    /\ \E k \in Keys : ~DocGet(last.before, k).ok /\ DocGet(last.val, k).ok /\ DocGet(doc, k).ok
    /\ \E k \in Keys : /\ DocGet(last.before, k).ok /\ DocGet(last.val, k).ok
                        /\ DocGet(last.before, k) # DocGet(last.val, k)
    /\ \E k \in Keys : ~DocGet(doc, k).ok

(***************************************************************************)
(* Structural sharing of map_set.                                          *)
(***************************************************************************)
\* a caller that works on the map alone
MapNext ==
    \/ \E key \in Keys, val \in Vals : DoMapSet(key, val)
    \/ \E key \in Keys : DoMapDel(key)
    \/ DoEmptyMapRoot
    \/ DoReset

MapSpec == Init /\ [][MapNext]_vars

\* the offsets of the nodes of the map under off
RECURSIVE MapNodes(_, _)
MapNodes(b, off) ==
    LET node == NodeSliceAt(b, off).node IN
    IF node.KeyType = KeyMap /\ node.Kind = NodeBranch
    THEN {off} \cup UNION {MapNodes(b, node.Children[i]) : i \in 1..Len(node.Children)}
    ELSE {off}

\* the offsets the last operation appended
NewOffsets == Len(last.before)..(Len(buf) - 1)

NewBranches == {o \in NewOffsets : buf[o + 1].KeyType = KeyMap /\ buf[o + 1].Kind = NodeBranch}

NewLeaves == {o \in NewOffsets : buf[o + 1].KeyType = KeyMap /\ buf[o + 1].Kind = NodeLeaf}

ChildrenOf(o) == {buf[o + 1].Children[i] : i \in 1..Len(buf[o + 1].Children)}

\* C21: a map_set re-emits only the nodes on the key's path, at most one
\* branch per trie level and the new leaves, and refers to every other
\* subtree by the offset it had, so the buffer grows by at most one node
\* per level and two leaves
C21_MapSetSharesStructure ==
    MapSetReturned =>
        /\ ~last.changed => NewOffsets = {}
        /\ NewOffsets = NewBranches \cup NewLeaves
        /\ Cardinality(NewBranches) <= maxDepth32
        /\ Cardinality(NewLeaves) <= 2
        /\ \A o \in NewBranches : Cardinality(ChildrenOf(o) \cap NewBranches) <= 1
        /\ \A o \in NewOffsets \ {last.newRoot} : \E b \in NewBranches : o \in ChildrenOf(b)
        /\ \A o \in NewBranches :
              (ChildrenOf(o) \ NewOffsets) \subseteq (MapNodes(last.before, last.root) \ {last.root})

\* a set that re-emitted a path of branches and kept a sibling subtree by
\* its offset
C21_Witness ==
    /\ MapSetReturned /\ last.changed
    /\ Cardinality(NewBranches) >= 1 /\ NewLeaves # {}
    /\ \E o \in NewBranches : ChildrenOf(o) \ NewOffsets # {}
    /\ Cardinality(MapNodes(buf, last.newRoot)) > Cardinality(NewOffsets)

(***************************************************************************)
(* The map builder: a caller hands key/value pairs to a MapBuilder and     *)
(* builds the map into a fresh Builder.                                    *)
(***************************************************************************)
MaxSets == 3

\* MapBuilder.Set(key, v): the value of an entry with the key is replaced,
\* a new key is appended
DoMapBuilderSet(key, v) ==
    /\ nops < MaxSets
    /\ mbEntries' = IF findKey(mbEntries, key) >= 0
                    THEN [mbEntries EXCEPT ![findKey(mbEntries, key) + 1].Value = v]
                    ELSE Append(mbEntries, MapLeafEntry(key, v))
    /\ last' = [NoOp EXCEPT !.op = "builder_set", !.key = key, !.val = v]
    /\ nops' = nops + 1
    /\ UNCHANGED <<buf, mapRoot, arrRoot, snap, emitted, doc, trail, compileCache, pc>>

\* MapBuilder.Build(NewBuilder())
DoMapBuilderBuild ==
    /\ \E r \in {MapBuilderBuild(NewBuilder, mbEntries)} :
       /\ r.err = NoErr
       /\ buf' = r.buf
       /\ mapRoot' = r.off
       /\ last' = [NoOp EXCEPT !.op = "build", !.newRoot = r.off]
    /\ UNCHANGED <<arrRoot, snap, emitted, nops, doc, trail, mbEntries, compileCache, pc>>

BuildNext ==
    \/ \E key \in Keys, v \in Vals : DoMapBuilderSet(key, v)
    \/ DoMapBuilderBuild

\* a fresh builder, no document, nothing done yet
FreshInit ==
    /\ buf = NewBuilder /\ mapRoot = NoRoot /\ arrRoot = NoRoot
    /\ snap = {} /\ emitted = <<NewBuilder>> /\ doc = NoDoc
    /\ last = NoOp /\ nops = 0 /\ trail = <<>> /\ OthersInit

BuildSpec == FreshInit /\ [][BuildNext]_vars

\* the entries in every order in which they can be supplied
Reorderings(es) ==
    {[i \in 1..Len(es) |-> es[p[i]]] : p \in Permutations(1..Len(es))}

SortedLeaf(cell) ==
    \A i \in 2..Len(cell.Entries) : bytesCompare(cell.Entries[i - 1].Key, cell.Entries[i].Key) < 0

\* C22: building a map from the same key/value pairs yields identical nodes
\* whatever the order in which the pairs were supplied, and every leaf holds
\* its keys in sorted order
C22_MapEncodingDeterministic ==
    last.op = "build" =>
        /\ \A es \in Reorderings(mbEntries) :
              MapBuilderBuild(NewBuilder, es) = AppRes(mapRoot, NoErr, buf)
        /\ \A i \in 1..Len(buf) :
              buf[i].KeyType = KeyMap /\ buf[i].Kind = NodeLeaf => SortedLeaf(buf[i])

\* a map of three keys built from pairs supplied with "tqt" before "dluw",
\* two keys that share one leaf
C22_Witness ==
    /\ last.op = "build" /\ Len(mbEntries) = 3
    /\ \E i, j \in 1..3 : i < j /\ mbEntries[i].Key = KeyTqt /\ mbEntries[j].Key = KeyDluw
    /\ \E i \in 1..Len(buf) :
          buf[i].KeyType = KeyMap /\ buf[i].Kind = NodeLeaf /\ Len(buf[i].Entries) = 2

(***************************************************************************)
(* The scalar codec of value.go: EncodeValue and DecodeValue over bytes.   *)
(* Integers of the model are 32 bits wide: an i64 is modelled within that  *)
(* range and its eight bytes are computed from its sign and magnitude; an  *)
(* f64 is its bit pattern in 16-bit words.                                 *)
(***************************************************************************)
\* the ValueType constants in iota order: a tag holds the type in its top
\* three bits
ValueTypes == <<TypeNil, TypeBit, TypeI64, TypeF64, TypeTxt, TypeBin, TypeArr, TypeMap>>

\* TypeFromTag: tag >> 5
TypeFromTag(tag) == ValueTypes[tag \div 32 + 1]

\* byte(typ) << 5
TypePrefix(typ) == 32 * ((CHOOSE i \in 1..8 : ValueTypes[i] = typ) - 1)

\* the low n bytes of a non-negative x, least significant first
leBytes(x, n) == [i \in 1..n |-> IF i <= 4 THEN (x \div 256 ^ (i - 1)) % 256 ELSE 0]

\* the number n little-endian bytes hold
RECURSIVE leValue(_, _)
leValue(b, n) == IF n = 0 THEN 0 ELSE b[1] + 256 * leValue(Tail(b), n - 1)

\* binary.LittleEndian.PutUint64(tmp, uint64(v)): two's complement
PutI64(v) ==
    IF v >= 0 THEN leBytes(v, 8)
    ELSE [i \in 1..8 |-> IF i <= 4 THEN 255 - (((-(v + 1)) \div 256 ^ (i - 1)) % 256) ELSE 255]

\* int64(binary.LittleEndian.Uint64(b))
GetI64(b) ==
    IF b[4] < 128 /\ \A i \in 5..8 : b[i] = 0 THEN leValue(b, 4)
    ELSE IF b[4] >= 128 /\ \A i \in 5..8 : b[i] = 255
    THEN -1 - leValue([i \in 1..4 |-> 255 - b[i]], 4)
    ELSE "beyond 32 bits"

\* binary.LittleEndian.PutUint64(tmp, math.Float64bits(v.F64))
PutF64(words) == [i \in 1..8 |-> IF i % 2 = 1 THEN words[(i + 1) \div 2] % 256
                                  ELSE words[i \div 2] \div 256]

\* math.Float64frombits(binary.LittleEndian.Uint64(b))
GetF64(b) == [w \in 1..4 |-> b[2 * w - 1] + 256 * b[2 * w]]

\* a length that is always packed into the tag
writeLengthPacked(prefix, length) == <<prefix + 16 + (length % 16)>>

\* writeLength: a length up to 15 is packed into the tag; a longer one
\* follows the tag in the least number of bytes that holds it
writeLength(prefix, length) ==
    IF length <= 15 THEN <<prefix + 16 + length>>
    ELSE LET n == IF length <= 255 THEN 1 ELSE IF length <= 65535 THEN 2
                  ELSE IF length <= 16777215 THEN 3 ELSE 4
         IN <<prefix + n>> \o leBytes(length, n)

\* decodeLength(tag, b): the payload length and the number of length bytes
decodeLength(tag, b) ==
    IF (tag \div 16) % 2 = 1 THEN [length |-> tag % 16, n |-> 0, err |-> NoErr]
    ELSE IF tag % 16 < 1 \/ tag % 16 > 8
    THEN [length |-> 0, n |-> 0, err |-> "invalid length-of-length"]
    ELSE IF Len(b) < tag % 16
    THEN [length |-> 0, n |-> 0, err |-> "length-of-length bytes missing"]
    ELSE [length |-> leValue(b, tag % 16), n |-> tag % 16, err |-> NoErr]

\* EncodeValue / encodeValueToBuffer
EncodeValue(v) ==
    CASE v.Type = TypeNil -> [err |-> NoErr, bytes |-> <<0>>]
      [] v.Type = TypeBit -> [err |-> NoErr, bytes |-> <<IF v.Bool THEN 33 ELSE 32>>]
      [] v.Type = TypeI64 -> [err |-> NoErr, bytes |-> <<64>> \o PutI64(v.I64)]
      [] v.Type = TypeF64 -> [err |-> NoErr, bytes |-> <<96>> \o PutF64(v.F64)]
      [] v.Type \in {TypeTxt, TypeBin} ->
            [err |-> NoErr,
             bytes |-> writeLength(TypePrefix(v.Type), Len(v.Bytes)) \o v.Bytes]
      [] v.Type \in {TypeArr, TypeMap} ->
            LET length == IF v.Offset > 16777215 THEN 4 ELSE IF v.Offset > 65535 THEN 3
                          ELSE IF v.Offset > 255 THEN 2 ELSE 1
            IN [err |-> NoErr,
                bytes |-> writeLength(TypePrefix(v.Type), length) \o leBytes(v.Offset, length)]
      [] OTHER -> [err |-> "unknown value type", bytes |-> <<>>]

\* DecodeValue: the value, the number of bytes read, an error
DecodeValue(b) ==
    LET tag == b[1]
        typ == TypeFromTag(tag)
        fail(e) == [val |-> ZeroValue, n |-> 0, err |-> e]
        len == decodeLength(tag, Tail(b))
        payload == SubSeq(b, 2 + len.n, 1 + len.n + len.length)
    IN IF Len(b) < 1 THEN fail("value tag missing")
       ELSE CASE typ = TypeNil ->
                   IF tag % 32 # 0 THEN fail("nil tag has non-zero low bits")
                   ELSE [val |-> ZeroValue, n |-> 1, err |-> NoErr]
              [] typ = TypeBit ->
                   IF (tag \div 2) % 16 # 0 THEN fail("bit tag has invalid low bits")
                   ELSE [val |-> BitValue(tag % 2 = 1), n |-> 1, err |-> NoErr]
              [] typ = TypeI64 ->
                   IF tag % 32 # 0 THEN fail("i64 tag has non-zero low bits")
                   ELSE IF Len(b) < 9 THEN fail("i64 payload too short")
                   ELSE [val |-> I64Value(GetI64(SubSeq(b, 2, 9))), n |-> 9, err |-> NoErr]
              [] typ = TypeF64 ->
                   IF tag % 32 # 0 THEN fail("f64 tag has non-zero low bits")
                   ELSE IF Len(b) < 9 THEN fail("f64 payload too short")
                   ELSE [val |-> [ZeroValue EXCEPT !.Type = TypeF64,
                                                   !.F64 = GetF64(SubSeq(b, 2, 9))],
                         n |-> 9, err |-> NoErr]
              [] OTHER ->
                   IF len.err # NoErr THEN fail(len.err)
                   ELSE IF Len(b) < 1 + len.n + len.length THEN fail("payload too short")
                   ELSE IF typ \in {TypeTxt, TypeBin}
                   THEN [val |-> Value(typ, FALSE, 0, payload, 0),
                         n |-> 1 + len.n + len.length, err |-> NoErr]
                   ELSE IF len.length = 0 \/ len.length > 4
                   THEN fail("node offset length out of range")
                   ELSE [val |-> Value(typ, FALSE, 0, <<>>, leValue(payload, len.length)),
                         n |-> 1 + len.n + len.length, err |-> NoErr]

\* the values of the non-container kinds a caller encodes: integers around
\* byte and sign boundaries, bit patterns of floats (0, 1.0, -0.0, a NaN,
\* all ones), and payloads of every length around the packed limit of 15
\* and the one-byte limit of 255
CodecValues ==
    {ZeroValue, BitValue(TRUE), BitValue(FALSE)}
    \cup {I64Value(n) : n \in (-20..20) \cup {127, 128, 255, 256, -128, -129, -256, -257,
                                              65535, 65536, -65536, 16777216,
                                              2147483647, -2147483647}}
    \cup {[ZeroValue EXCEPT !.Type = TypeF64, !.F64 = w] :
             w \in {<<0, 0, 0, 0>>, <<0, 0, 0, 16368>>, <<0, 0, 0, 32768>>,
                    <<1, 0, 0, 32760>>, <<65535, 65535, 65535, 65535>>,
                    <<256, 255, 4660, 49152>>}}
    \cup {Value(typ, FALSE, 0, [i \in 1..n |-> (7 * i) % 256], 0) :
             typ \in {TypeTxt, TypeBin}, n \in (0..20) \cup {255, 256, 257}}

CodecOp(v, enc, dec) ==
    [op |-> "codec", root |-> NoRoot, key |-> <<>>, index |-> 0, val |-> v, len |-> 0,
     newRoot |-> NoRoot, changed |-> FALSE, err |-> enc.err, before |-> <<>>,
     again |-> FALSE, enc |-> enc.bytes, dec |-> dec]

\* enc, err := EncodeValue(v); dec, n, err := DecodeValue(enc)
DoEncodeDecode(v) ==
    /\ \E enc \in {EncodeValue(v)} :
          last' = CodecOp(v, enc, IF enc.err = NoErr THEN DecodeValue(enc.bytes)
                                  ELSE [val |-> ZeroValue, n |-> 0, err |-> enc.err])
    /\ UNCHANGED <<buf, mapRoot, arrRoot, snap, emitted, nops, doc, trail, others>>

CodecNext == \E v \in CodecValues : DoEncodeDecode(v)

CodecSpec == FreshInit /\ [][CodecNext]_vars

\* C23: for every value v of a non-container kind, decoding EncodeValue(v)
\* returns a value equal to v and consumes exactly the encoded bytes
C23_ScalarRoundTrip ==
    last.op = "codec" =>
        /\ last.err = NoErr /\ last.dec.err = NoErr
        /\ valueEqual(last.val, last.dec.val)
        /\ last.dec.n = Len(last.enc)

\* a text of 256 bytes, whose length takes two bytes after the tag
C23_Witness ==
    /\ last.op = "codec" /\ last.val.Type = TypeTxt /\ Len(last.val.Bytes) = 256
    /\ Len(last.enc) = 259 /\ last.dec.n = 259 /\ last.dec.val.Bytes = last.val.Bytes

\* a negative integer, whose eight bytes carry the sign
C23_NegativeRoundTrip ==
    /\ last.op = "codec" /\ last.val.Type = TypeI64 /\ last.val.I64 = -257
    /\ last.enc = <<64, 255, 254, 255, 255, 255, 255, 255, 255>>
    /\ last.dec.val.I64 = -257

(***************************************************************************)
(* The compile cache: goroutines call Compile, SetCompileCacheSize and     *)
(* ClearCompileCache concurrently.  A step is what a goroutine does        *)
(* between two points where others may run: what it does while holding     *)
(* the mutex is one step, a read made before taking the mutex is another.  *)
(***************************************************************************)
\* expressions handed to Compile; the last one does not parse
Expressions == {"a", "b", "c", "["}

Parses(expression) == expression # "["

\* the sizes handed to SetCompileCacheSize
CacheSizes == {-1, 0, 1, 2}

RemoveKey(ll, key) == SelectSeq(ll, LAMBDA k : k # key)

\* removeOldest: the back of the list leaves the list and the map
removeOldest(c) ==
    IF Len(c.ll) = 0 THEN c
    ELSE [c EXCEPT !.ll = SubSeq(c.ll, 1, Len(c.ll) - 1),
                   !.cache = c.cache \ {c.ll[Len(c.ll)]}]

\* Compile, up to the check get makes before it takes the mutex
CompileCall(g, expression) ==
    /\ pc[g].at = "idle"
    /\ pc' = [pc EXCEPT ![g] = [at |-> IF compileCache.maxEntries = 0 THEN "parse"
                                       ELSE "get", key |-> expression]]
    /\ last' = [NoOp EXCEPT !.op = "compile", !.key = expression]
    /\ UNCHANGED <<buf, mapRoot, arrRoot, snap, emitted, nops, doc, trail, mbEntries,
                   compileCache>>

\* exprCache.get under the mutex: a hit moves the entry to the front and
\* Compile returns it
CacheGetLocked(g) ==
    /\ pc[g].at = "get"
    /\ IF pc[g].key \in compileCache.cache
       THEN /\ compileCache' = [compileCache EXCEPT
                                   !.ll = <<pc[g].key>> \o RemoveKey(compileCache.ll, pc[g].key)]
            /\ pc' = [pc EXCEPT ![g] = Idle]
            /\ last' = [NoOp EXCEPT !.op = "cache_hit", !.key = pc[g].key]
       ELSE /\ pc' = [pc EXCEPT ![g].at = "parse"]
            /\ last' = [NoOp EXCEPT !.op = "cache_miss", !.key = pc[g].key]
            /\ UNCHANGED compileCache
    /\ UNCHANGED <<buf, mapRoot, arrRoot, snap, emitted, nops, doc, trail, mbEntries>>

\* normalizeExpression, Parse, convertAST, and the check add makes before
\* it takes the mutex
CompileParse(g) ==
    /\ pc[g].at = "parse"
    /\ pc' = [pc EXCEPT ![g] = IF Parses(pc[g].key) /\ compileCache.maxEntries # 0
                               THEN [at |-> "add", key |-> pc[g].key]
                               ELSE Idle]
    /\ last' = [NoOp EXCEPT !.op = "parse", !.key = pc[g].key,
                            !.err = IF Parses(pc[g].key) THEN NoErr ELSE "syntax error"]
    /\ UNCHANGED <<buf, mapRoot, arrRoot, snap, emitted, nops, doc, trail, mbEntries,
                   compileCache>>

\* exprCache.add under the mutex
cacheAddLocked(c, key) ==
    IF key \in c.cache THEN [c EXCEPT !.ll = <<key>> \o RemoveKey(c.ll, key)]
    ELSE LET pushed == [c EXCEPT !.ll = <<key>> \o c.ll, !.cache = c.cache \cup {key}]
         IN IF pushed.maxEntries > 0 /\ Len(pushed.ll) > pushed.maxEntries
            THEN removeOldest(pushed) ELSE pushed

CacheAddLocked(g) ==
    /\ pc[g].at = "add"
    /\ compileCache' = cacheAddLocked(compileCache, pc[g].key)
    /\ pc' = [pc EXCEPT ![g] = Idle]
    /\ last' = [NoOp EXCEPT !.op = "cache_add", !.key = pc[g].key]
    /\ UNCHANGED <<buf, mapRoot, arrRoot, snap, emitted, nops, doc, trail, mbEntries>>

\* evict from the back until the list fits
RECURSIVE evictTo(_, _)
evictTo(c, maxEntries) ==
    IF Len(c.ll) > maxEntries THEN evictTo(removeOldest(c), maxEntries) ELSE c

\* exprCache.setMax
setMax(c, maxEntries) ==
    LET m == IF maxEntries < 0 THEN 0 ELSE maxEntries
    IN IF m = 0 THEN [maxEntries |-> 0, ll |-> <<>>, cache |-> {}]
       ELSE evictTo([c EXCEPT !.maxEntries = m], m)

SetCompileCacheSize(maxEntries) ==
    /\ compileCache' = setMax(compileCache, maxEntries)
    /\ last' = [NoOp EXCEPT !.op = "set_size", !.len = maxEntries]
    /\ UNCHANGED <<buf, mapRoot, arrRoot, snap, emitted, nops, doc, trail, mbEntries, pc>>

\* exprCache.clear
ClearCompileCache ==
    /\ compileCache' = [compileCache EXCEPT !.ll = <<>>, !.cache = {}]
    /\ last' = [NoOp EXCEPT !.op = "clear"]
    /\ UNCHANGED <<buf, mapRoot, arrRoot, snap, emitted, nops, doc, trail, mbEntries, pc>>

CacheNext ==
    \/ \E g \in Goroutines, e \in Expressions : CompileCall(g, e)
    \/ \E g \in Goroutines : CacheGetLocked(g)
    \/ \E g \in Goroutines : CompileParse(g)
    \/ \E g \in Goroutines : CacheAddLocked(g)
    \/ \E n \in CacheSizes : SetCompileCacheSize(n)
    \/ ClearCompileCache

CacheSpec == FreshInit /\ [][CacheNext]_vars

\* C24: under any interleaving of Compile, SetCompileCacheSize and
\* ClearCompileCache the cache never holds more entries than the configured
\* maximum, and holds no entry while the maximum is 0
C24_CacheWithinMax == Len(compileCache.ll) <= compileCache.maxEntries

\* what the mutex does keep: the list and the map hold the same keys, and a
\* cache with a positive maximum stays within it
C24_PositiveMaxRespected ==
    /\ compileCache.cache = {compileCache.ll[i] : i \in 1..Len(compileCache.ll)}
    /\ Cardinality(compileCache.cache) = Len(compileCache.ll)
    /\ compileCache.maxEntries > 0 => Len(compileCache.ll) <= compileCache.maxEntries

\* an add that passed its check before the cache was disabled has stored
\* an entry in the disabled cache
C24_EntryInDisabledCache ==
    /\ last.op = "cache_add" /\ compileCache.maxEntries = 0 /\ Len(compileCache.ll) = 1

(***************************************************************************)
(* The shape of a map: where its leaves are and what they hold.            *)
(***************************************************************************)
\* the leaves of the map under off, each with its depth and its entries
RECURSIVE MapLeaves(_, _, _)
MapLeaves(b, off, depth) ==
    LET node == NodeSliceAt(b, off).node IN
    IF node.Kind = NodeBranch
    THEN UNION {MapLeaves(b, node.Children[i], depth + 1) : i \in 1..Len(node.Children)}
    ELSE {[off |-> off, depth |-> depth, entries |-> node.Entries]}

\* C25: in every map reached by sets and deletes, a leaf that holds more
\* than one entry lies at depth maxDepth32; a leaf above holds at most one
C25_MultiEntryLeafOnlyAtMaxDepth ==
    mapRoot # NoRoot =>
        \A leaf \in MapLeaves(buf, mapRoot, 0) :
            /\ leaf.depth <= maxDepth32
            /\ Len(leaf.entries) > 1 => leaf.depth = maxDepth32

\* two sets into the empty map of keys with the same hash: one leaf at
\* depth maxDepth32 holds both
C25_Witness ==
    /\ MapSetReturned /\ last.changed /\ nops = 2
    /\ \E s \in snap : s.kind = KeyMap /\ \A k \in Keys : ~s.reads[k].ok
    /\ \E leaf \in MapLeaves(buf, mapRoot, 0) :
          leaf.depth = maxDepth32 /\ Len(leaf.entries) = 2
    /\ \A leaf \in MapLeaves(last.before, last.root, 0) : Len(leaf.entries) = 1

(***************************************************************************)
(* The shape of an array: the lengths and shifts its nodes store.          *)
(***************************************************************************)
\* the offsets of the nodes of the array under off
RECURSIVE ArrayNodes(_, _)
ArrayNodes(b, off) ==
    LET node == NodeSliceAt(b, off).node IN
    IF node.Kind = NodeBranch
    THEN {off} \cup UNION {ArrayNodes(b, node.Children[i]) : i \in 1..Len(node.Children)}
    ELSE {off}

\* the indices at which the array under off stores a value, base being the
\* index of the first slot of the node
RECURSIVE StoredIndices(_, _, _)
StoredIndices(b, off, base) ==
    LET node == NodeSliceAt(b, off).node
        slots == {slot \in 0..15 : HasBit(node.Bitmap, slot)}
    IN IF node.Kind = NodeBranch
       THEN UNION {StoredIndices(b, node.Children[DenseIdx(node.Bitmap, slot) + 1],
                                 base + slot * 2 ^ node.Shift) : slot \in slots}
       ELSE {base + slot : slot \in slots}

\* the root stores the logical length: every index below it is read by
\* arr_get and no value is stored from there on
RootLengthIsTrue(b, root) ==
    LET length == b[root + 1].Length IN
    /\ \A i \in 0..(length - 1) : ArrGet(b, root, i).ok
    /\ \A i \in StoredIndices(b, root, 0) : i < length

NonRootLengthsZero(b, root) ==
    \A o \in ArrayNodes(b, root) \ {root} : b[o + 1].Length = 0 /\ ~b[o + 1].IsRoot

\* C26: in every array produced by arr_set, arr_append and arr_slice the
\* root stores the true logical length and every other node stores length 0
C26_RootLengthTrueOthersZero ==
    arrRoot # NoRoot =>
        RootLengthIsTrue(buf, arrRoot) /\ NonRootLengthsZero(buf, arrRoot)

\* the part of C26 the builder keeps on every array: nodes below the root
\* store length 0
C26_NonRootLengthsZero == arrRoot # NoRoot => NonRootLengthsZero(buf, arrRoot)

\* the root of the document, when it is an array
DocArrayRoot == ParseTrailer(doc).RootOffset

DocHoldsArray == doc # NoDoc /\ doc[DocArrayRoot + 1].KeyType = KeyArr

\* the document-level updates, which check the index against the length,
\* keep all of C26
C26_DocumentArrays ==
    DocHoldsArray =>
        RootLengthIsTrue(doc, DocArrayRoot) /\ NonRootLengthsZero(doc, DocArrayRoot)

\* an append has demoted the leaf root of 16 values under a new branch root
C26_DocumentGrown ==
    /\ DocHoldsArray /\ last.op = "arr_append" /\ last.err = NoErr
    /\ doc[DocArrayRoot + 1].Kind = NodeBranch /\ doc[DocArrayRoot + 1].Length >= 17
    /\ Cardinality(ArrayNodes(doc, DocArrayRoot)) >= 3

\* a set at index 16 with length 17 on the array of two values
C26_LengthBeyondValues ==
    /\ last.op = "arr_set" /\ last.err = NoErr /\ last.index = 16 /\ last.len = 17
    /\ buf[arrRoot + 1].Length = 17 /\ ~ArrGet(buf, arrRoot, 2).ok

(***************************************************************************)
(* Growth of an array by sets far past its root: each set may wrap the     *)
(* root in several new roots and build a path of several nodes.            *)
(***************************************************************************)
\* indices under a leaf root, and under roots of shift 4, 8 and 12
GrowIndices == {0, 17, 256, 4096}

GrowNext ==
    \E index \in GrowIndices, val \in Vals :
        \E length \in ArrLengths(index) : DoArrSet(index, val, length)

GrowSpec == Init /\ [][GrowNext]_vars

\* every leaf under root has shift 0 and every child of a branch has the
\* shift of the branch less 4
ShiftsDescend(b, root) ==
    \A o \in ArrayNodes(b, root) :
        LET node == b[o + 1] IN
        IF node.Kind = NodeLeaf THEN node.Shift = 0
        ELSE \A i \in 1..Len(node.Children) :
                b[node.Children[i] + 1].Shift = node.Shift - 4

\* C27: in every array produced by sets, appends and slices, growth past
\* the root included, each child of a branch has a shift 4 less than the
\* branch and every leaf has shift 0
C27_ShiftsDescendByFour == arrRoot # NoRoot => ShiftsDescend(buf, arrRoot)

\* the same under the document-level updates
C27_DocumentArrays == DocHoldsArray => ShiftsDescend(doc, DocArrayRoot)

\* a set at index 4096 has wrapped a leaf root in roots of shift 4, 8 and 12
\* and built a path of two branches and a leaf beside it
C27_Witness ==
    /\ last.op = "arr_set" /\ last.err = NoErr /\ last.index = 4096
    /\ last.before[last.root + 1].Kind = NodeLeaf
    /\ buf[arrRoot + 1].Shift = 12 /\ Len(buf[arrRoot + 1].Children) = 2
    /\ Cardinality(ArrayNodes(buf, arrRoot)) = 7

(***************************************************************************)
(* What map_del leaves alone.                                              *)
(***************************************************************************)
\* C28: after map_del(root, k) returns root', map_get(root', j) returns
\* what map_get(root, j) returned, for every key j other than k
C28_MapDelKeepsOtherKeys ==
    MapDelReturned =>
        \A j \in Keys \ {last.key} : MapGet(buf, last.newRoot, j) = PreGet(j)

\* a key removed from a map that holds another key in the same leaf and a
\* third elsewhere: both are read as before
C28_Witness ==
    /\ MapDelReturned /\ last.changed /\ PreGet(last.key).ok
    /\ Cardinality({j \in Keys \ {last.key} : MapGet(buf, last.newRoot, j).ok}) = 2
    /\ \E j \in Keys \ {last.key} :
          XXH32(j) = XXH32(last.key) /\ MapGet(buf, last.newRoot, j).ok

(***************************************************************************)
(* Keys whose hashes are equal.                                            *)
(***************************************************************************)
\* the keys of the entries of a leaf, in stored order
LeafKeys(leaf) == [i \in 1..Len(leaf.entries) |-> leaf.entries[i].Key]

\* the keys stored under the caller's map root
StoredKeys ==
    UNION {{leaf.entries[i].Key : i \in 1..Len(leaf.entries)} :
             leaf \in MapLeaves(buf, mapRoot, 0)}

\* C29: keys whose hashes are equal in all their bits are stored together
\* in one leaf at depth maxDepth32, in ascending key order, and map_get
\* finds each of them with its own value
C29_CollidingKeysShareSortedLeaf ==
    mapRoot # NoRoot =>
        \A j, k \in StoredKeys :
            j # k /\ XXH32(j) = XXH32(k) =>
                \E leaf \in MapLeaves(buf, mapRoot, 0) :
                    /\ leaf.depth = maxDepth32
                    /\ {j, k} \subseteq {leaf.entries[i].Key : i \in 1..Len(leaf.entries)}
                    /\ \A i \in 2..Len(leaf.entries) :
                          bytesCompare(leaf.entries[i - 1].Key, leaf.entries[i].Key) < 0
                    /\ \A i \in 1..Len(leaf.entries) :
                          MapGet(buf, mapRoot, leaf.entries[i].Key)
                              = GetRes(leaf.entries[i].Value, TRUE, NoErr)
                    /\ MapSetReturned /\ last.key \in {j, k} =>
                          MapGet(buf, mapRoot, last.key).val = last.val

\* tqt set to 2 in a map that held dluw with 1: one leaf holds dluw before
\* tqt and each is read with its own value
C29_Witness ==
    /\ MapSetReturned /\ last.key = KeyTqt /\ last.val = I64Value(2)
    /\ ~PreGet(KeyTqt).ok /\ PreGet(KeyDluw) = GetRes(I64Value(1), TRUE, NoErr)
    /\ \E leaf \in MapLeaves(buf, mapRoot, 0) : LeafKeys(leaf) = <<KeyDluw, KeyTqt>>
    /\ MapGet(buf, mapRoot, KeyTqt) = GetRes(I64Value(2), TRUE, NoErr)
    /\ MapGet(buf, mapRoot, KeyDluw) = GetRes(I64Value(1), TRUE, NoErr)

(***************************************************************************)
(* Closing the builder's buffer in place.                                  *)
(***************************************************************************)
\* TrailerMagic: 'T', 'R', 'O', 'N'
TrailerMagic == <<84, 82, 79, 78>>

\* the four bytes that lie in the buffer behind the two words of the
\* trailer when the buffer is extended: zeros when the bytes are fresh, the
\* bytes of an earlier life of the buffer when Reset kept its capacity
SpareBytes == {<<0, 0, 0, 0>>, <<16, 0, 0, 0>>, TrailerMagic}

\* BytesWithTrailerInPlace: the buffer is extended by TrailerSize bytes and
\* the root and prev-root words are written; the last four bytes are left as
\* they are.  The result is the new buffer of the builder.
BytesWithTrailerInPlace(b, rootOffset, prevRootOffset, spare) ==
    Append(b, IF spare = TrailerMagic THEN TrailerCell(rootOffset, prevRootOffset)
                ELSE [KeyType |-> KeyNone, Kind |-> "words", RootOffset |-> rootOffset,
                      PrevRootOffset |-> prevRootOffset, Tail |-> spare])

DoBytesWithTrailerInPlace(root, prev, spare) ==
    /\ nops < MaxOps
    /\ \E bytes \in {BytesWithTrailerInPlace(buf, root, prev, spare)} :
       /\ buf' = bytes
       /\ emitted' = Track(emitted, bytes)
       /\ last' = [op |-> "trailer_in_place", root |-> root, key |-> <<>>, index |-> 0,
                   val |-> ZeroValue, len |-> prev, newRoot |-> root, changed |-> TRUE,
                   err |-> NoErr, before |-> buf, again |-> FALSE, out |-> bytes,
                   want |-> BytesWithTrailer(buf, root, prev)]
    /\ nops' = nops + 1
    /\ UNCHANGED <<mapRoot, arrRoot, snap, doc, trail, others>>

TrailerNext ==
    \/ \E key \in Keys, val \in Vals : DoMapSet(key, val)
    \/ \E root \in {mapRoot, arrRoot} \ {NoRoot}, prev \in {NoRoot, mapRoot, arrRoot},
          spare \in SpareBytes : DoBytesWithTrailerInPlace(root, prev, spare)

TrailerSpec == Init /\ [][TrailerNext]_vars

C30_InPlaceWritesWords ==
    last.op = "trailer_in_place" =>
        /\ buf = last.out /\ Len(last.out) = Len(last.before) + 1
        /\ SubSeq(last.out, 1, Len(last.before)) = last.before
        /\ last.out[Len(last.out)].RootOffset = last.root
        /\ last.out[Len(last.out)].PrevRootOffset = last.len

\* the buffer was extended over zero bytes: the result does not end in the
\* trailer magic and ParseTrailer rejects it
C30_MagicMissing ==
    /\ last.op = "trailer_in_place" /\ last.out[Len(last.out)].Kind = "words"
    /\ last.out[Len(last.out)].Tail = <<0, 0, 0, 0>>
    /\ ParseTrailer(last.out).err # NoErr /\ ParseTrailer(last.want).err = NoErr

====
